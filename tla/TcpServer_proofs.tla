--------------------------- MODULE TcpServer_proofs ---------------------------
(***************************************************************************)
(* Proofs about TcpServer for any numbers of clients, contexts, threads and *)
(* accepts, with callbacks that may throw and posts that may fail: its types,*)
(* that a TcpClientRef keeps its client (RefProtects), and that the counts  *)
(* of operations and of accepts are what they count (CountExact and         *)
(* AcceptCountExact), from the invariant of TcpServerInv.  Each lemma about  *)
(* a step has one step per action of Next, in the order of the modules.     *)
(***************************************************************************)
EXTENDS TcpServerInv, FiniteSetTheorems, TLAPS

\* A count stays an integer whether or not the client it belongs to exists.
LEMMA CountUpdate ==
    ASSUME NEW S, NEW f \in [S -> Int], NEW i
    PROVE  /\ [f EXCEPT ![i] = 0] \in [S -> Int]
           /\ [f EXCEPT ![i] = @ + 1] \in [S -> Int]
           /\ [f EXCEPT ![i] = @ - 1] \in [S -> Int]
<1>1. CASE i \in S BY <1>1
<1>2. CASE i \notin S BY <1>2
<1>3. QED BY <1>1, <1>2

-----------------------------------------------------------------------------
(* Types. *)

LEMMA ClientTypes ==
    ASSUME ClientTypeOK, Next
    PROVE  ClientTypeOK'
<1> USE DEF ClientTypeOK, poolVars, connVars
<1>1. ASSUME NEW x \in Ctx, KernelCompletes(x), UNCHANGED acceptorVars
    PROVE  ClientTypeOK'
  BY <1>1 DEF KernelCompletes
<1>2. ASSUME NEW x \in Ctx, KernelAborts(x), UNCHANGED acceptorVars
    PROVE  ClientTypeOK'
  BY <1>2 DEF KernelAborts
<1>3. ASSUME NEW c \in Clients, GoesStale(c), UNCHANGED acceptorVars
    PROVE  ClientTypeOK'
  BY <1>3 DEF GoesStale
<1>4. ASSUME NEW w \in Workers, NEW c \in Clients, RecvCompleted(w, c), UNCHANGED acceptorVars
    PROVE  ClientTypeOK'
  BY <1>4 DEF RecvCompleted, Dequeue, ClientOf
<1>5. ASSUME NEW w \in Workers, NEW x \in IOContexts,
           SendCompleted(w, x), UNCHANGED acceptorVars
    PROVE  ClientTypeOK'
  BY <1>5 DEF SendCompleted, Dequeue, ReleaseContext, ClientOf
<1>6. ASSUME NEW w \in Workers, NEW x \in IOContexts,
           SpecialCompleted(w, x), UNCHANGED acceptorVars
    PROVE  ClientTypeOK'
  BY <1>6 DEF SpecialCompleted, Dequeue, ReleaseContext, ClientOf
<1>7. ASSUME NEW w \in Workers, NEW x \in Ctx, DequeueFaults(w, x), UNCHANGED acceptorVars
    PROVE  ClientTypeOK'
  BY <1>7 DEF DequeueFaults, ClientOf
<1>8. ASSUME NEW w \in Workers, OnRecvCompletion(w), UNCHANGED acceptorVars
    PROVE  ClientTypeOK'
  <2>1. recvPacket' \in [Clients -> BOOLEAN]
    BY <1>8 DEF OnRecvCompletion
  <2>2. told' \in [Clients -> SUBSET {"connected", "received", "closed"}]
    BY <1>8 DEF OnRecvCompletion, Tell
  <2>3. QED BY <1>8, <2>1, <2>2 DEF OnRecvCompletion
<1>9. ASSUME NEW w \in Workers, PostRecv(w, "postRecv", "issueRecv"), UNCHANGED acceptorVars
    PROVE  ClientTypeOK'
  <2>1. pendingIO' \in [Clients -> Int]
    BY <1>9, CountUpdate DEF PostRecv
  <2>2. recvOp' \in [Clients -> {"idle", "accept", "recv"}]
    BY <1>9 DEF PostRecv
  <2>3. QED BY <1>9, <2>1, <2>2 DEF PostRecv
<1>10. ASSUME NEW w \in Workers,
           IssueRecv(w, "issueRecv", "release", "disconnect"), UNCHANGED acceptorVars
    PROVE  ClientTypeOK'
  BY <1>10 DEF IssueRecv, At
<1>11. ASSUME NEW w \in Workers, SetDisconnect(w), UNCHANGED acceptorVars
    PROVE  ClientTypeOK'
  BY <1>11 DEF SetDisconnect, At
<1>12. ASSUME NEW t \in Workers \cup AppThreads, DecreaseIOCount(t), UNCHANGED acceptorVars
    PROVE  ClientTypeOK'
  <2>1. pendingIO' \in [Clients -> Int]
    BY <1>12, CountUpdate DEF DecreaseIOCount
  <2>2. QED BY <1>12, <2>1 DEF DecreaseIOCount
<1>13. ASSUME NEW t \in Workers \cup AppThreads, MarkClosed(t), UNCHANGED acceptorVars
    PROVE  ClientTypeOK'
  BY <1>13 DEF MarkClosed, At
<1>14. ASSUME NEW t \in Workers \cup AppThreads, ReportClosed(t), UNCHANGED acceptorVars
    PROVE  ClientTypeOK'
  <2>1. recvPacket' \in [Clients -> BOOLEAN]
    BY <1>14 DEF ReportClosed
  <2>2. told' \in [Clients -> SUBSET {"connected", "received", "closed"}]
    BY <1>14 DEF ReportClosed, Tell
  <2>3. QED BY <1>14, <2>1, <2>2 DEF ReportClosed
<1>15. ASSUME NEW t \in Workers \cup AppThreads, RemoveClient(t), UNCHANGED acceptorVars
    PROVE  ClientTypeOK'
  <2>1. mem' \in [Clients -> {"unused", "live", "freed"}]
    BY <1>15 DEF RemoveClient, RemoveFromMap
  <2>2. marked' \in [Clients -> BOOLEAN]
    BY <1>15 DEF RemoveClient, RemoveFromMap
  <2>3. QED BY <1>15, <2>1, <2>2 DEF RemoveClient
<1>16. ASSUME NEW a \in AppThreads, NEW c \in Clients, FindClient(a, c), UNCHANGED acceptorVars
    PROVE  ClientTypeOK'
  BY <1>16 DEF FindClient
<1>17. ASSUME NEW a \in AppThreads, PostSend(a), UNCHANGED acceptorVars
    PROVE  ClientTypeOK'
  BY <1>17 DEF PostSend, At, UseContext, FreeContexts
<1>18. ASSUME NEW a \in AppThreads, CloseSocket(a), UNCHANGED acceptorVars
    PROVE  ClientTypeOK'
  BY <1>18 DEF CloseSocket, At, PostSpecial, UseContext, FreeContexts
<1>19. ASSUME NEW a \in AppThreads, UnRef(a), UNCHANGED acceptorVars
    PROVE  ClientTypeOK'
  <2>1. refCount' \in [Clients -> Int]
    BY <1>19, CountUpdate DEF UnRef
  <2>2. QED BY <1>19, <2>1 DEF UnRef
<1>20. ASSUME NEW t \in Threads, Faults(t), UNCHANGED acceptorVars
    PROVE  ClientTypeOK'
  BY <1>20 DEF Faults
<1>21. ASSUME NEW c \in Clients, CheckStatus(c), UNCHANGED acceptorVars
    PROVE  ClientTypeOK'
  BY <1>21 DEF CheckStatus, PostSpecial, UseContext, FreeContexts, Unused
<1>22. ASSUME NEW c \in Clients, CheckStatusFails(c), UNCHANGED acceptorVars
    PROVE  ClientTypeOK'
  <2>1. mem' \in [Clients -> {"unused", "live", "freed"}]
    BY <1>22 DEF CheckStatusFails, RemoveFromMap, Unused
  <2>2. marked' \in [Clients -> BOOLEAN]
    BY <1>22 DEF CheckStatusFails, RemoveFromMap
  <2>3. pendingIO' \in [Clients -> Int]
    BY <1>22, CountUpdate DEF CheckStatusFails
  <2>4. recvPacket' \in [Clients -> BOOLEAN]
    BY <1>22 DEF CheckStatusFails
  <2>5. connState' \in [Clients -> {"CLOSED", "CONNECTED", "CLOSING"}]
    BY <1>22 DEF CheckStatusFails
  <2>6. told' \in [Clients -> SUBSET {"connected", "received", "closed"}]
    BY <1>22 DEF CheckStatusFails, Tell
  <2>7. QED BY <1>22, <2>1, <2>2, <2>3, <2>4, <2>5, <2>6 DEF CheckStatusFails
<1>23. ASSUME NEW w \in Workers, NEW c \in Clients, AcceptCompleted(w, c)
    PROVE  ClientTypeOK'
  BY <1>23 DEF AcceptCompleted
<1>24. ASSUME NEW w \in Workers,
           PostRecv(w, "acceptPostRecv", "acceptIssueRecv"), UNCHANGED acceptorVars
    PROVE  ClientTypeOK'
  <2>1. pendingIO' \in [Clients -> Int]
    BY <1>24, CountUpdate DEF PostRecv
  <2>2. recvOp' \in [Clients -> {"idle", "accept", "recv"}]
    BY <1>24 DEF PostRecv
  <2>3. QED BY <1>24, <2>1, <2>2 DEF PostRecv
<1>25. ASSUME NEW w \in Workers,
           IssueRecv(w, "acceptIssueRecv", "accepted", "acceptFailed"), UNCHANGED acceptorVars
    PROVE  ClientTypeOK'
  BY <1>25 DEF IssueRecv, At
<1>26. ASSUME NEW w \in Workers, ReportConnected(w)
    PROVE  ClientTypeOK'
  BY <1>26 DEF ReportConnected, At, Tell
<1>27. ASSUME NEW w \in Workers, DropClient(w)
    PROVE  ClientTypeOK'
  <2>1. pendingIO' \in [Clients -> Int]
    BY <1>27, CountUpdate DEF DropClient
  <2>2. refCount' \in [Clients -> Int]
    BY <1>27, CountUpdate DEF DropClient
  <2>3. marked' \in [Clients -> BOOLEAN]
    BY <1>27 DEF DropClient
  <2>4. connState' \in [Clients -> {"CLOSED", "CONNECTED", "CLOSING"}]
    BY <1>27 DEF DropClient
  <2>5. socket' \in [Clients -> {"open", "invalid"}]
    BY <1>27 DEF DropClient
  <2>6. recvOp' \in [Clients -> {"idle", "accept", "recv"}]
    BY <1>27 DEF DropClient
  <2>7. recvPacket' \in [Clients -> BOOLEAN]
    BY <1>27 DEF DropClient
  <2>8. stale' \in [Clients -> BOOLEAN]
    BY <1>27 DEF DropClient
  <2>9. QED BY <1>27, <2>1, <2>2, <2>3, <2>4, <2>5, <2>6, <2>7, <2>8 DEF DropClient
<1>28. ASSUME NEW w \in Workers, RemoveDropped(w)
    PROVE  ClientTypeOK'
  <2>1. mem' \in [Clients -> {"unused", "live", "freed"}]
    BY <1>28 DEF RemoveDropped, RemoveFromMap
  <2>2. marked' \in [Clients -> BOOLEAN]
    BY <1>28 DEF RemoveDropped, RemoveFromMap
  <2>3. QED BY <1>28, <2>1, <2>2 DEF RemoveDropped
<1>29. ASSUME NEW w \in Workers, DecrementPending(w)
    PROVE  ClientTypeOK'
  BY <1>29 DEF DecrementPending
<1>30. ASSUME NEW t \in Workers \cup {Starter}, AllocTcpClient(t)
    PROVE  ClientTypeOK'
  BY <1>30 DEF AllocTcpClient
<1>31. ASSUME NEW t \in Workers \cup {Starter}, CannotPostAccept(t)
    PROVE  ClientTypeOK'
  BY <1>31 DEF CannotPostAccept, AfterAccept
<1>32. ASSUME NEW t \in Workers \cup {Starter}, IncrementPending(t)
    PROVE  ClientTypeOK'
  BY <1>32 DEF IncrementPending, At
<1>33. ASSUME NEW t \in Workers \cup {Starter}, AcceptExSucceeds(t)
    PROVE  ClientTypeOK'
  BY <1>33 DEF AcceptExSucceeds, At, AfterAccept
<1>34. ASSUME NEW t \in Workers \cup {Starter}, AcceptExFails(t)
    PROVE  ClientTypeOK'
  <2>1. mem' \in [Clients -> {"unused", "live", "freed"}]
    BY <1>34 DEF AcceptExFails, RemoveFromMap
  <2>2. marked' \in [Clients -> BOOLEAN]
    BY <1>34 DEF AcceptExFails, RemoveFromMap
  <2>3. QED BY <1>34, <2>1, <2>2 DEF AcceptExFails
<1>35. ASSUME NEW t \in Workers \cup {Starter}, AcceptorFaults(t)
    PROVE  ClientTypeOK'
  BY <1>35 DEF AcceptorFaults
<1>36. ASSUME StartFails
    PROVE  ClientTypeOK'
  BY <1>36 DEF StartFails
<1>37. QED
    BY Next, <1>1, <1>2, <1>3, <1>4, <1>5, <1>6, <1>7, <1>8, <1>9, <1>10, <1>11, <1>12,
          <1>13, <1>14, <1>15, <1>16, <1>17, <1>18, <1>19, <1>20, <1>21, <1>22, <1>23, <1>24,
          <1>25, <1>26, <1>27, <1>28, <1>29, <1>30, <1>31, <1>32, <1>33, <1>34, <1>35, <1>36
       DEF Next, ClientNext, AcceptorNext, Kernel, TakeCompletion, CheckReleaseStep, ConnectionStep,
              AppStep, Assist, AcceptConnection, PostAccept

LEMMA ContextTypes ==
    ASSUME ContextTypeOK, ThreadTypeOK, Next
    PROVE  ContextTypeOK'
<1> USE DEF ContextTypeOK, ThreadTypeOK, ctxVars, Ctx, Threads
<1>1. ASSUME NEW x \in Ctx, KernelCompletes(x), UNCHANGED acceptorVars
    PROVE  ContextTypeOK'
  BY <1>1 DEF KernelCompletes
<1>2. ASSUME NEW x \in Ctx, KernelAborts(x), UNCHANGED acceptorVars
    PROVE  ContextTypeOK'
  BY <1>2 DEF KernelAborts
<1>3. ASSUME NEW c \in Clients, GoesStale(c), UNCHANGED acceptorVars
    PROVE  ContextTypeOK'
  BY <1>3 DEF GoesStale
<1>4. ASSUME NEW w \in Workers, NEW c \in Clients, RecvCompleted(w, c), UNCHANGED acceptorVars
    PROVE  ContextTypeOK'
  BY <1>4 DEF RecvCompleted, Dequeue, ClientOf
<1>5. ASSUME NEW w \in Workers, NEW x \in IOContexts,
           SendCompleted(w, x), UNCHANGED acceptorVars
    PROVE  ContextTypeOK'
  BY <1>5 DEF SendCompleted, Dequeue, ReleaseContext, ClientOf
<1>6. ASSUME NEW w \in Workers, NEW x \in IOContexts,
           SpecialCompleted(w, x), UNCHANGED acceptorVars
    PROVE  ContextTypeOK'
  BY <1>6 DEF SpecialCompleted, Dequeue, ReleaseContext, ClientOf
<1>7. ASSUME NEW w \in Workers, NEW x \in Ctx, DequeueFaults(w, x), UNCHANGED acceptorVars
    PROVE  ContextTypeOK'
  BY <1>7 DEF DequeueFaults, ClientOf
<1>8. ASSUME NEW w \in Workers, OnRecvCompletion(w), UNCHANGED acceptorVars
    PROVE  ContextTypeOK'
  BY <1>8 DEF OnRecvCompletion, At, Tell
<1>9. ASSUME NEW w \in Workers, PostRecv(w, "postRecv", "issueRecv"), UNCHANGED acceptorVars
    PROVE  ContextTypeOK'
  BY <1>9 DEF PostRecv, At
<1>10. ASSUME NEW w \in Workers,
           IssueRecv(w, "issueRecv", "release", "disconnect"), UNCHANGED acceptorVars
    PROVE  ContextTypeOK'
  BY <1>10 DEF IssueRecv, At
<1>11. ASSUME NEW w \in Workers, SetDisconnect(w), UNCHANGED acceptorVars
    PROVE  ContextTypeOK'
  BY <1>11 DEF SetDisconnect, At
<1>12. ASSUME NEW t \in Workers \cup AppThreads, DecreaseIOCount(t), UNCHANGED acceptorVars
    PROVE  ContextTypeOK'
  BY <1>12 DEF DecreaseIOCount, At, Return
<1>13. ASSUME NEW t \in Workers \cup AppThreads, MarkClosed(t), UNCHANGED acceptorVars
    PROVE  ContextTypeOK'
  BY <1>13 DEF MarkClosed, At
<1>14. ASSUME NEW t \in Workers \cup AppThreads, ReportClosed(t), UNCHANGED acceptorVars
    PROVE  ContextTypeOK'
  BY <1>14 DEF ReportClosed, At, Return, Tell
<1>15. ASSUME NEW t \in Workers \cup AppThreads, RemoveClient(t), UNCHANGED acceptorVars
    PROVE  ContextTypeOK'
  BY <1>15 DEF RemoveClient, At, Return, RemoveFromMap
<1>16. ASSUME NEW a \in AppThreads, NEW c \in Clients, FindClient(a, c), UNCHANGED acceptorVars
    PROVE  ContextTypeOK'
  BY <1>16 DEF FindClient
<1>17. ASSUME NEW a \in AppThreads, PostSend(a), UNCHANGED acceptorVars
    PROVE  ContextTypeOK'
  BY <1>17 DEF PostSend, At, UseContext, FreeContexts
<1>18. ASSUME NEW a \in AppThreads, CloseSocket(a), UNCHANGED acceptorVars
    PROVE  ContextTypeOK'
  BY <1>18 DEF CloseSocket, At, PostSpecial, UseContext, FreeContexts
<1>19. ASSUME NEW a \in AppThreads, UnRef(a), UNCHANGED acceptorVars
    PROVE  ContextTypeOK'
  BY <1>19 DEF UnRef, At
<1>20. ASSUME NEW t \in Threads, Faults(t), UNCHANGED acceptorVars
    PROVE  ContextTypeOK'
  BY <1>20 DEF Faults
<1>21. ASSUME NEW c \in Clients, CheckStatus(c), UNCHANGED acceptorVars
    PROVE  ContextTypeOK'
  BY <1>21 DEF CheckStatus, PostSpecial, UseContext, FreeContexts, Unused
<1>22. ASSUME NEW c \in Clients, CheckStatusFails(c), UNCHANGED acceptorVars
    PROVE  ContextTypeOK'
  BY <1>22 DEF CheckStatusFails, RemoveFromMap, Unused, Tell
<1>23. ASSUME NEW w \in Workers, NEW c \in Clients, AcceptCompleted(w, c)
    PROVE  ContextTypeOK'
  BY <1>23 DEF AcceptCompleted
<1>24. ASSUME NEW w \in Workers,
           PostRecv(w, "acceptPostRecv", "acceptIssueRecv"), UNCHANGED acceptorVars
    PROVE  ContextTypeOK'
  BY <1>24 DEF PostRecv, At
<1>25. ASSUME NEW w \in Workers,
           IssueRecv(w, "acceptIssueRecv", "accepted", "acceptFailed"), UNCHANGED acceptorVars
    PROVE  ContextTypeOK'
  BY <1>25 DEF IssueRecv, At
<1>26. ASSUME NEW w \in Workers, ReportConnected(w)
    PROVE  ContextTypeOK'
  BY <1>26 DEF ReportConnected, At, Tell
<1>27. ASSUME NEW w \in Workers, DropClient(w)
    PROVE  ContextTypeOK'
  BY <1>27 DEF DropClient, At
<1>28. ASSUME NEW w \in Workers, RemoveDropped(w)
    PROVE  ContextTypeOK'
  BY <1>28 DEF RemoveDropped, RemoveFromMap
<1>29. ASSUME NEW w \in Workers, DecrementPending(w)
    PROVE  ContextTypeOK'
  BY <1>29 DEF DecrementPending
<1>30. ASSUME NEW t \in Workers \cup {Starter}, AllocTcpClient(t)
    PROVE  ContextTypeOK'
  BY <1>30 DEF AllocTcpClient
<1>31. ASSUME NEW t \in Workers \cup {Starter}, CannotPostAccept(t)
    PROVE  ContextTypeOK'
  BY <1>31 DEF CannotPostAccept, AfterAccept
<1>32. ASSUME NEW t \in Workers \cup {Starter}, IncrementPending(t)
    PROVE  ContextTypeOK'
  BY <1>32 DEF IncrementPending, At
<1>33. ASSUME NEW t \in Workers \cup {Starter}, AcceptExSucceeds(t)
    PROVE  ContextTypeOK'
  BY <1>33 DEF AcceptExSucceeds, At, AfterAccept
<1>34. ASSUME NEW t \in Workers \cup {Starter}, AcceptExFails(t)
    PROVE  ContextTypeOK'
  BY <1>34 DEF AcceptExFails, At, AfterAccept, RemoveFromMap
<1>35. ASSUME NEW t \in Workers \cup {Starter}, AcceptorFaults(t)
    PROVE  ContextTypeOK'
  BY <1>35 DEF AcceptorFaults
<1>36. ASSUME StartFails
    PROVE  ContextTypeOK'
  BY <1>36 DEF StartFails
<1>37. QED
    BY Next, <1>1, <1>2, <1>3, <1>4, <1>5, <1>6, <1>7, <1>8, <1>9, <1>10, <1>11, <1>12,
          <1>13, <1>14, <1>15, <1>16, <1>17, <1>18, <1>19, <1>20, <1>21, <1>22, <1>23, <1>24,
          <1>25, <1>26, <1>27, <1>28, <1>29, <1>30, <1>31, <1>32, <1>33, <1>34, <1>35, <1>36
       DEF Next, ClientNext, AcceptorNext, Kernel, TakeCompletion, CheckReleaseStep, ConnectionStep,
              AppStep, Assist, AcceptConnection, PostAccept

LEMMA ThreadTypes ==
    ASSUME ContextTypeOK, ThreadTypeOK, Next
    PROVE  ThreadTypeOK'
<1> USE DEF ContextTypeOK, ThreadTypeOK, Goto, Threads, PCs, Ctx
<1>1. ASSUME NEW x \in Ctx, KernelCompletes(x), UNCHANGED acceptorVars
    PROVE  ThreadTypeOK'
  BY <1>1 DEF KernelCompletes
<1>2. ASSUME NEW x \in Ctx, KernelAborts(x), UNCHANGED acceptorVars
    PROVE  ThreadTypeOK'
  BY <1>2 DEF KernelAborts
<1>3. ASSUME NEW c \in Clients, GoesStale(c), UNCHANGED acceptorVars
    PROVE  ThreadTypeOK'
  BY <1>3 DEF GoesStale
<1>4. ASSUME NEW w \in Workers, NEW c \in Clients, RecvCompleted(w, c), UNCHANGED acceptorVars
    PROVE  ThreadTypeOK'
  BY <1>4 DEF RecvCompleted, Dequeue, ClientOf
<1>5. ASSUME NEW w \in Workers, NEW x \in IOContexts,
           SendCompleted(w, x), UNCHANGED acceptorVars
    PROVE  ThreadTypeOK'
  BY <1>5 DEF SendCompleted, Dequeue, ReleaseContext, ClientOf
<1>6. ASSUME NEW w \in Workers, NEW x \in IOContexts,
           SpecialCompleted(w, x), UNCHANGED acceptorVars
    PROVE  ThreadTypeOK'
  BY <1>6 DEF SpecialCompleted, Dequeue, ReleaseContext, ClientOf
<1>7. ASSUME NEW w \in Workers, NEW x \in Ctx, DequeueFaults(w, x), UNCHANGED acceptorVars
    PROVE  ThreadTypeOK'
  BY <1>7 DEF DequeueFaults, ClientOf
<1>8. ASSUME NEW w \in Workers, OnRecvCompletion(w), UNCHANGED acceptorVars
    PROVE  ThreadTypeOK'
  BY <1>8 DEF OnRecvCompletion, At, Tell
<1>9. ASSUME NEW w \in Workers, PostRecv(w, "postRecv", "issueRecv"), UNCHANGED acceptorVars
    PROVE  ThreadTypeOK'
  BY <1>9 DEF PostRecv, At
<1>10. ASSUME NEW w \in Workers,
           IssueRecv(w, "issueRecv", "release", "disconnect"), UNCHANGED acceptorVars
    PROVE  ThreadTypeOK'
  BY <1>10 DEF IssueRecv, At
<1>11. ASSUME NEW w \in Workers, SetDisconnect(w), UNCHANGED acceptorVars
    PROVE  ThreadTypeOK'
  BY <1>11 DEF SetDisconnect, At
<1>12. ASSUME NEW t \in Workers \cup AppThreads, DecreaseIOCount(t), UNCHANGED acceptorVars
    PROVE  ThreadTypeOK'
  BY <1>12 DEF DecreaseIOCount, At, Return
<1>13. ASSUME NEW t \in Workers \cup AppThreads, MarkClosed(t), UNCHANGED acceptorVars
    PROVE  ThreadTypeOK'
  BY <1>13 DEF MarkClosed, At
<1>14. ASSUME NEW t \in Workers \cup AppThreads, ReportClosed(t), UNCHANGED acceptorVars
    PROVE  ThreadTypeOK'
  BY <1>14 DEF ReportClosed, At, Return, Tell
<1>15. ASSUME NEW t \in Workers \cup AppThreads, RemoveClient(t), UNCHANGED acceptorVars
    PROVE  ThreadTypeOK'
  BY <1>15 DEF RemoveClient, At, Return, RemoveFromMap
<1>16. ASSUME NEW a \in AppThreads, NEW c \in Clients, FindClient(a, c), UNCHANGED acceptorVars
    PROVE  ThreadTypeOK'
  BY <1>16 DEF FindClient
<1>17. ASSUME NEW a \in AppThreads, PostSend(a), UNCHANGED acceptorVars
    PROVE  ThreadTypeOK'
  BY <1>17 DEF PostSend, At, UseContext, FreeContexts
<1>18. ASSUME NEW a \in AppThreads, CloseSocket(a), UNCHANGED acceptorVars
    PROVE  ThreadTypeOK'
  BY <1>18 DEF CloseSocket, At, PostSpecial, UseContext, FreeContexts
<1>19. ASSUME NEW a \in AppThreads, UnRef(a), UNCHANGED acceptorVars
    PROVE  ThreadTypeOK'
  BY <1>19 DEF UnRef, At
<1>20. ASSUME NEW t \in Threads, Faults(t), UNCHANGED acceptorVars
    PROVE  ThreadTypeOK'
  BY <1>20 DEF Faults
<1>21. ASSUME NEW c \in Clients, CheckStatus(c), UNCHANGED acceptorVars
    PROVE  ThreadTypeOK'
  BY <1>21 DEF CheckStatus, PostSpecial, UseContext, FreeContexts, Unused
<1>22. ASSUME NEW c \in Clients, CheckStatusFails(c), UNCHANGED acceptorVars
    PROVE  ThreadTypeOK'
  BY <1>22 DEF CheckStatusFails, RemoveFromMap, Unused, Tell
<1>23. ASSUME NEW w \in Workers, NEW c \in Clients, AcceptCompleted(w, c)
    PROVE  ThreadTypeOK'
  BY <1>23 DEF AcceptCompleted
<1>24. ASSUME NEW w \in Workers,
           PostRecv(w, "acceptPostRecv", "acceptIssueRecv"), UNCHANGED acceptorVars
    PROVE  ThreadTypeOK'
  BY <1>24 DEF PostRecv, At
<1>25. ASSUME NEW w \in Workers,
           IssueRecv(w, "acceptIssueRecv", "accepted", "acceptFailed"), UNCHANGED acceptorVars
    PROVE  ThreadTypeOK'
  BY <1>25 DEF IssueRecv, At
<1>26. ASSUME NEW w \in Workers, ReportConnected(w)
    PROVE  ThreadTypeOK'
  BY <1>26 DEF ReportConnected, At, Tell
<1>27. ASSUME NEW w \in Workers, DropClient(w)
    PROVE  ThreadTypeOK'
  BY <1>27 DEF DropClient, At
<1>28. ASSUME NEW w \in Workers, RemoveDropped(w)
    PROVE  ThreadTypeOK'
  BY <1>28 DEF RemoveDropped, RemoveFromMap
<1>29. ASSUME NEW w \in Workers, DecrementPending(w)
    PROVE  ThreadTypeOK'
  BY <1>29 DEF DecrementPending
<1>30. ASSUME NEW t \in Workers \cup {Starter}, AllocTcpClient(t)
    PROVE  ThreadTypeOK'
  BY <1>30 DEF AllocTcpClient
<1>31. ASSUME NEW t \in Workers \cup {Starter}, CannotPostAccept(t)
    PROVE  ThreadTypeOK'
  BY <1>31 DEF CannotPostAccept, AfterAccept
<1>32. ASSUME NEW t \in Workers \cup {Starter}, IncrementPending(t)
    PROVE  ThreadTypeOK'
  BY <1>32 DEF IncrementPending, At
<1>33. ASSUME NEW t \in Workers \cup {Starter}, AcceptExSucceeds(t)
    PROVE  ThreadTypeOK'
  BY <1>33 DEF AcceptExSucceeds, At, AfterAccept
<1>34. ASSUME NEW t \in Workers \cup {Starter}, AcceptExFails(t)
    PROVE  ThreadTypeOK'
  BY <1>34 DEF AcceptExFails, At, AfterAccept, RemoveFromMap
<1>35. ASSUME NEW t \in Workers \cup {Starter}, AcceptorFaults(t)
    PROVE  ThreadTypeOK'
  BY <1>35 DEF AcceptorFaults
<1>36. ASSUME StartFails
    PROVE  ThreadTypeOK'
  BY <1>36 DEF StartFails
<1>37. QED
    BY Next, <1>1, <1>2, <1>3, <1>4, <1>5, <1>6, <1>7, <1>8, <1>9, <1>10, <1>11, <1>12,
          <1>13, <1>14, <1>15, <1>16, <1>17, <1>18, <1>19, <1>20, <1>21, <1>22, <1>23, <1>24,
          <1>25, <1>26, <1>27, <1>28, <1>29, <1>30, <1>31, <1>32, <1>33, <1>34, <1>35, <1>36
       DEF Next, ClientNext, AcceptorNext, Kernel, TakeCompletion, CheckReleaseStep, ConnectionStep,
              AppStep, Assist, AcceptConnection, PostAccept

\* Initialize's loop ends with Backlog accepts posted.
LEMMA AcceptorTypes ==
    ASSUME AcceptorTypeOK, ThreadTypeOK, StartInv, Next
    PROVE  AcceptorTypeOK' /\ StartInv'
<1> USE ThreadsDisjoint, BacklogPositive
        DEF AcceptorTypeOK, ThreadTypeOK, StartInv, Goto, Threads, acceptorVars
<1>1. ASSUME NEW x \in Ctx, KernelCompletes(x), UNCHANGED acceptorVars
    PROVE  AcceptorTypeOK' /\ StartInv'
  BY <1>1 DEF KernelCompletes
<1>2. ASSUME NEW x \in Ctx, KernelAborts(x), UNCHANGED acceptorVars
    PROVE  AcceptorTypeOK' /\ StartInv'
  BY <1>2 DEF KernelAborts
<1>3. ASSUME NEW c \in Clients, GoesStale(c), UNCHANGED acceptorVars
    PROVE  AcceptorTypeOK' /\ StartInv'
  BY <1>3 DEF GoesStale
<1>4. ASSUME NEW w \in Workers, NEW c \in Clients, RecvCompleted(w, c), UNCHANGED acceptorVars
    PROVE  AcceptorTypeOK' /\ StartInv'
  BY <1>4 DEF RecvCompleted, Dequeue, ClientOf
<1>5. ASSUME NEW w \in Workers, NEW x \in IOContexts,
           SendCompleted(w, x), UNCHANGED acceptorVars
    PROVE  AcceptorTypeOK' /\ StartInv'
  BY <1>5 DEF SendCompleted, Dequeue, ReleaseContext, ClientOf
<1>6. ASSUME NEW w \in Workers, NEW x \in IOContexts,
           SpecialCompleted(w, x), UNCHANGED acceptorVars
    PROVE  AcceptorTypeOK' /\ StartInv'
  BY <1>6 DEF SpecialCompleted, Dequeue, ReleaseContext, ClientOf
<1>7. ASSUME NEW w \in Workers, NEW x \in Ctx, DequeueFaults(w, x), UNCHANGED acceptorVars
    PROVE  AcceptorTypeOK' /\ StartInv'
  BY <1>7 DEF DequeueFaults, ClientOf
<1>8. ASSUME NEW w \in Workers, OnRecvCompletion(w), UNCHANGED acceptorVars
    PROVE  AcceptorTypeOK' /\ StartInv'
  BY <1>8 DEF OnRecvCompletion, At, Tell
<1>9. ASSUME NEW w \in Workers, PostRecv(w, "postRecv", "issueRecv"), UNCHANGED acceptorVars
    PROVE  AcceptorTypeOK' /\ StartInv'
  BY <1>9 DEF PostRecv, At
<1>10. ASSUME NEW w \in Workers,
           IssueRecv(w, "issueRecv", "release", "disconnect"), UNCHANGED acceptorVars
    PROVE  AcceptorTypeOK' /\ StartInv'
  BY <1>10 DEF IssueRecv, At
<1>11. ASSUME NEW w \in Workers, SetDisconnect(w), UNCHANGED acceptorVars
    PROVE  AcceptorTypeOK' /\ StartInv'
  BY <1>11 DEF SetDisconnect, At
<1>12. ASSUME NEW t \in Workers \cup AppThreads, DecreaseIOCount(t), UNCHANGED acceptorVars
    PROVE  AcceptorTypeOK' /\ StartInv'
  BY <1>12 DEF DecreaseIOCount, At, Return
<1>13. ASSUME NEW t \in Workers \cup AppThreads, MarkClosed(t), UNCHANGED acceptorVars
    PROVE  AcceptorTypeOK' /\ StartInv'
  BY <1>13 DEF MarkClosed, At
<1>14. ASSUME NEW t \in Workers \cup AppThreads, ReportClosed(t), UNCHANGED acceptorVars
    PROVE  AcceptorTypeOK' /\ StartInv'
  BY <1>14 DEF ReportClosed, At, Return, Tell
<1>15. ASSUME NEW t \in Workers \cup AppThreads, RemoveClient(t), UNCHANGED acceptorVars
    PROVE  AcceptorTypeOK' /\ StartInv'
  BY <1>15 DEF RemoveClient, At, Return, RemoveFromMap
<1>16. ASSUME NEW a \in AppThreads, NEW c \in Clients, FindClient(a, c), UNCHANGED acceptorVars
    PROVE  AcceptorTypeOK' /\ StartInv'
  BY <1>16 DEF FindClient
<1>17. ASSUME NEW a \in AppThreads, PostSend(a), UNCHANGED acceptorVars
    PROVE  AcceptorTypeOK' /\ StartInv'
  BY <1>17 DEF PostSend, At, UseContext, FreeContexts
<1>18. ASSUME NEW a \in AppThreads, CloseSocket(a), UNCHANGED acceptorVars
    PROVE  AcceptorTypeOK' /\ StartInv'
  BY <1>18 DEF CloseSocket, At, PostSpecial, UseContext, FreeContexts
<1>19. ASSUME NEW a \in AppThreads, UnRef(a), UNCHANGED acceptorVars
    PROVE  AcceptorTypeOK' /\ StartInv'
  BY <1>19 DEF UnRef, At
<1>20. ASSUME NEW t \in Threads, Faults(t), UNCHANGED acceptorVars
    PROVE  AcceptorTypeOK' /\ StartInv'
  BY <1>20 DEF Faults
<1>21. ASSUME NEW c \in Clients, CheckStatus(c), UNCHANGED acceptorVars
    PROVE  AcceptorTypeOK' /\ StartInv'
  BY <1>21 DEF CheckStatus, PostSpecial, UseContext, FreeContexts, Unused
<1>22. ASSUME NEW c \in Clients, CheckStatusFails(c), UNCHANGED acceptorVars
    PROVE  AcceptorTypeOK' /\ StartInv'
  BY <1>22 DEF CheckStatusFails, RemoveFromMap, Unused, Tell
<1>23. ASSUME NEW w \in Workers, NEW c \in Clients, AcceptCompleted(w, c)
    PROVE  AcceptorTypeOK' /\ StartInv'
  BY <1>23 DEF AcceptCompleted
<1>24. ASSUME NEW w \in Workers,
           PostRecv(w, "acceptPostRecv", "acceptIssueRecv"), UNCHANGED acceptorVars
    PROVE  AcceptorTypeOK' /\ StartInv'
  BY <1>24 DEF PostRecv, At
<1>25. ASSUME NEW w \in Workers,
           IssueRecv(w, "acceptIssueRecv", "accepted", "acceptFailed"), UNCHANGED acceptorVars
    PROVE  AcceptorTypeOK' /\ StartInv'
  BY <1>25 DEF IssueRecv, At
<1>26. ASSUME NEW w \in Workers, ReportConnected(w)
    PROVE  AcceptorTypeOK' /\ StartInv'
  BY <1>26 DEF ReportConnected, At, Tell
<1>27. ASSUME NEW w \in Workers, DropClient(w)
    PROVE  AcceptorTypeOK' /\ StartInv'
  BY <1>27 DEF DropClient, At
<1>28. ASSUME NEW w \in Workers, RemoveDropped(w)
    PROVE  AcceptorTypeOK' /\ StartInv'
  BY <1>28 DEF RemoveDropped, RemoveFromMap
<1>29. ASSUME NEW w \in Workers, DecrementPending(w)
    PROVE  AcceptorTypeOK' /\ StartInv'
  <2>1. pendingAccept' \in Int
    BY <1>29 DEF DecrementPending
  <2>2. acceptor' \in {"alive", "deleted"} /\ listening' \in BOOLEAN
    BY <1>29 DEF DecrementPending
  <2>3. QED BY <1>29, <2>1, <2>2 DEF DecrementPending
<1>30. ASSUME NEW t \in Workers \cup {Starter}, AllocTcpClient(t)
    PROVE  AcceptorTypeOK' /\ StartInv'
  BY <1>30 DEF AllocTcpClient
<1>31. ASSUME NEW t \in Workers \cup {Starter}, CannotPostAccept(t)
    PROVE  AcceptorTypeOK' /\ StartInv'
  BY <1>31 DEF CannotPostAccept, AfterAccept
<1>32. ASSUME NEW t \in Workers \cup {Starter}, IncrementPending(t)
    PROVE  AcceptorTypeOK' /\ StartInv'
  BY <1>32 DEF IncrementPending, At
<1>33. ASSUME NEW t \in Workers \cup {Starter}, AcceptExSucceeds(t)
    PROVE  AcceptorTypeOK' /\ StartInv'
  BY <1>33 DEF AcceptExSucceeds, At, AfterAccept
<1>34. ASSUME NEW t \in Workers \cup {Starter}, AcceptExFails(t)
    PROVE  AcceptorTypeOK' /\ StartInv'
  BY <1>34 DEF AcceptExFails, At, AfterAccept, RemoveFromMap
<1>35. ASSUME NEW t \in Workers \cup {Starter}, AcceptorFaults(t)
    PROVE  AcceptorTypeOK' /\ StartInv'
  BY <1>35 DEF AcceptorFaults
<1>36. ASSUME StartFails
    PROVE  AcceptorTypeOK' /\ StartInv'
  BY <1>36 DEF StartFails
<1>37. QED
    BY Next, <1>1, <1>2, <1>3, <1>4, <1>5, <1>6, <1>7, <1>8, <1>9, <1>10, <1>11, <1>12,
          <1>13, <1>14, <1>15, <1>16, <1>17, <1>18, <1>19, <1>20, <1>21, <1>22, <1>23, <1>24,
          <1>25, <1>26, <1>27, <1>28, <1>29, <1>30, <1>31, <1>32, <1>33, <1>34, <1>35, <1>36
       DEF Next, ClientNext, AcceptorNext, Kernel, TakeCompletion, CheckReleaseStep, ConnectionStep,
              AppStep, Assist, AcceptConnection, PostAccept

LEMMA TypeStep == TypeOK /\ StartInv /\ [Next]_vars => TypeOK' /\ StartInv'
<1>1. CASE Next
  BY <1>1, ClientTypes, ContextTypes, ThreadTypes, AcceptorTypes DEF TypeOK
<1>2. CASE UNCHANGED vars
  BY <1>2 DEF vars, poolVars, connVars, ctxVars, acceptorVars, TypeOK, ClientTypeOK,
              ContextTypeOK, ThreadTypeOK, AcceptorTypeOK, StartInv
<1>3. QED BY <1>1, <1>2

LEMMA TypeInit == Init => TypeOK /\ StartInv
BY BacklogPositive, ThreadsDisjoint
   DEF Init, TypeOK, ClientTypeOK, ContextTypeOK, ThreadTypeOK, AcceptorTypeOK, StartInv, PCs, Threads

\* Every variable keeps its type, and TcpAcceptor::Initialize never posts more
\* than Backlog accepts (the range of started).
THEOREM TypeCorrect == Spec => []TypeOK
<1>1. TypeOK /\ StartInv /\ [Next]_vars => (TypeOK /\ StartInv)'
  BY TypeStep
<1>2. QED BY <1>1, TypeInit, PTL DEF Spec

-----------------------------------------------------------------------------
(* Each client from its allocation to its first receive. *)

LEMMA ConnStep ==
    ASSUME TypeOK, ConnInv, Next
    PROVE  ConnInv'
<1> USE ThreadsDisjoint, CtxDisjoint, NoClientFresh
        DEF TypeOK, ClientTypeOK, ContextTypeOK, ThreadTypeOK, Goto, Threads, Ctx, poolVars,
            connVars, ctxVars, ConnInv, AllocInv, OnePump, PumpIO, PumpOp, NamedInv, Named,
            EarlyPCs, PumpPCs, OpenerPCs, WorkPCs, TouchingPCs
<1>1. ASSUME NEW x \in Ctx, KernelCompletes(x), UNCHANGED acceptorVars
    PROVE  ConnInv'
  BY <1>1 DEF KernelCompletes
<1>2. ASSUME NEW x \in Ctx, KernelAborts(x), UNCHANGED acceptorVars
    PROVE  ConnInv'
  BY <1>2 DEF KernelAborts
<1>3. ASSUME NEW c \in Clients, GoesStale(c), UNCHANGED acceptorVars
    PROVE  ConnInv'
  BY <1>3 DEF GoesStale
<1>4. ASSUME NEW w \in Workers, NEW c \in Clients, RecvCompleted(w, c), UNCHANGED acceptorVars
    PROVE  ConnInv'
  BY <1>4 DEF RecvCompleted, Dequeue, ClientOf
<1>5. ASSUME NEW w \in Workers, NEW x \in IOContexts,
           SendCompleted(w, x), UNCHANGED acceptorVars
    PROVE  ConnInv'
  BY <1>5 DEF SendCompleted, Dequeue, ReleaseContext, ClientOf
<1>6. ASSUME NEW w \in Workers, NEW x \in IOContexts,
           SpecialCompleted(w, x), UNCHANGED acceptorVars
    PROVE  ConnInv'
  BY <1>6 DEF SpecialCompleted, Dequeue, ReleaseContext, ClientOf
<1>7. ASSUME NEW w \in Workers, NEW x \in Ctx, DequeueFaults(w, x), UNCHANGED acceptorVars
    PROVE  ConnInv'
  BY <1>7 DEF DequeueFaults, ClientOf
<1>8. ASSUME NEW w \in Workers, OnRecvCompletion(w), UNCHANGED acceptorVars
    PROVE  ConnInv'
  BY <1>8 DEF OnRecvCompletion, At, Tell
<1>9. ASSUME NEW w \in Workers, PostRecv(w, "postRecv", "issueRecv"), UNCHANGED acceptorVars
    PROVE  ConnInv'
  BY <1>9 DEF PostRecv, At
<1>10. ASSUME NEW w \in Workers,
           IssueRecv(w, "issueRecv", "release", "disconnect"), UNCHANGED acceptorVars
    PROVE  ConnInv'
  BY <1>10, SMTT(30) DEF IssueRecv, At
<1>11. ASSUME NEW w \in Workers, SetDisconnect(w), UNCHANGED acceptorVars
    PROVE  ConnInv'
  BY <1>11 DEF SetDisconnect, At
<1>12. ASSUME NEW t \in Workers \cup AppThreads, DecreaseIOCount(t), UNCHANGED acceptorVars
    PROVE  ConnInv'
  BY <1>12 DEF DecreaseIOCount, At, Return
<1>13. ASSUME NEW t \in Workers \cup AppThreads, MarkClosed(t), UNCHANGED acceptorVars
    PROVE  ConnInv'
  BY <1>13 DEF MarkClosed, At
<1>14. ASSUME NEW t \in Workers \cup AppThreads, ReportClosed(t), UNCHANGED acceptorVars
    PROVE  ConnInv'
  <2>1. \A d \in Clients : Named(d)' <=> Named(d)
    BY <1>14 DEF ReportClosed, At, Tell
  <2>2. AllocInv' /\ OnePump' /\ PumpIO' /\ PumpOp'
    BY <1>14 DEF ReportClosed, At, Return
  <2>3. \A u \in Threads : pc'[u] \in {"acceptIssueRecv", "acceptFailed"} =>
                             pc'[u] = pc[u] /\ cur'[u] = cur[u] /\ cur[u] \in Clients
    BY <1>14 DEF ReportClosed, At, Return
  <2>4. UNCHANGED recvOp
    BY <1>14 DEF ReportClosed
  <2> HIDE DEF Named
  <2>5. NamedInv'
    <3>1. \A d \in Clients : recvOp'[d] # "recv" => ~Named(d)'
      BY <2>1, <2>4
    <3>2. \A u \in Threads : pc'[u] \in {"acceptIssueRecv", "acceptFailed"} => ~Named(cur[u])'
      BY <2>1, <2>3
    <3>3. QED BY <3>1, <3>2, <2>3 DEF Named
  <2>6. QED BY <2>2, <2>5
<1>15. ASSUME NEW t \in Workers \cup AppThreads, RemoveClient(t), UNCHANGED acceptorVars
    PROVE  ConnInv'
  BY <1>15 DEF RemoveClient, At, Return, RemoveFromMap
<1>16. ASSUME NEW a \in AppThreads, NEW c \in Clients, FindClient(a, c), UNCHANGED acceptorVars
    PROVE  ConnInv'
  BY <1>16 DEF FindClient
<1>17. ASSUME NEW a \in AppThreads, PostSend(a), UNCHANGED acceptorVars
    PROVE  ConnInv'
  BY <1>17 DEF PostSend, At, UseContext, FreeContexts
<1>18. ASSUME NEW a \in AppThreads, CloseSocket(a), UNCHANGED acceptorVars
    PROVE  ConnInv'
  BY <1>18 DEF CloseSocket, At, PostSpecial, UseContext, FreeContexts
<1>19. ASSUME NEW a \in AppThreads, UnRef(a), UNCHANGED acceptorVars
    PROVE  ConnInv'
  BY <1>19 DEF UnRef, At
<1>20. ASSUME NEW t \in Threads, Faults(t), UNCHANGED acceptorVars
    PROVE  ConnInv'
  BY <1>20 DEF Faults
<1>21. ASSUME NEW c \in Clients, CheckStatus(c), UNCHANGED acceptorVars
    PROVE  ConnInv'
  BY <1>21 DEF CheckStatus, PostSpecial, UseContext, FreeContexts, Unused
<1>22. ASSUME NEW c \in Clients, CheckStatusFails(c), UNCHANGED acceptorVars
    PROVE  ConnInv'
  <2>1. \A d \in Clients : Named(d)' <=> Named(d)
    BY <1>22 DEF CheckStatusFails, Tell
  <2>2. AllocInv' /\ OnePump' /\ PumpIO' /\ PumpOp'
    BY <1>22 DEF CheckStatusFails, RemoveFromMap, Unused
  <2>3. \A u \in Threads : pc'[u] \in {"acceptIssueRecv", "acceptFailed"} =>
                             pc'[u] = pc[u] /\ cur'[u] = cur[u] /\ cur[u] \in Clients
    BY <1>22 DEF CheckStatusFails
  <2>4. UNCHANGED recvOp
    BY <1>22 DEF CheckStatusFails
  <2> HIDE DEF Named
  <2>5. NamedInv'
    <3>1. \A d \in Clients : recvOp'[d] # "recv" => ~Named(d)'
      BY <2>1, <2>4
    <3>2. \A u \in Threads : pc'[u] \in {"acceptIssueRecv", "acceptFailed"} => ~Named(cur[u])'
      BY <2>1, <2>3
    <3>3. QED BY <3>1, <3>2, <2>3 DEF Named
  <2>6. QED BY <2>2, <2>5
<1>23. ASSUME NEW w \in Workers, NEW c \in Clients, AcceptCompleted(w, c)
    PROVE  ConnInv'
  BY <1>23 DEF AcceptCompleted
<1>24. ASSUME NEW w \in Workers,
           PostRecv(w, "acceptPostRecv", "acceptIssueRecv"), UNCHANGED acceptorVars
    PROVE  ConnInv'
  BY <1>24 DEF PostRecv, At
<1>25. ASSUME NEW w \in Workers,
           IssueRecv(w, "acceptIssueRecv", "accepted", "acceptFailed"), UNCHANGED acceptorVars
    PROVE  ConnInv'
  BY <1>25 DEF IssueRecv, At
<1>26. ASSUME NEW w \in Workers, ReportConnected(w)
    PROVE  ConnInv'
  BY <1>26 DEF ReportConnected, At, Tell
<1>27. ASSUME NEW w \in Workers, DropClient(w)
    PROVE  ConnInv'
  BY <1>27 DEF DropClient, At
<1>28. ASSUME NEW w \in Workers, RemoveDropped(w)
    PROVE  ConnInv'
  BY <1>28 DEF RemoveDropped, RemoveFromMap
<1>29. ASSUME NEW w \in Workers, DecrementPending(w)
    PROVE  ConnInv'
  BY <1>29 DEF DecrementPending
<1>30. ASSUME NEW t \in Workers \cup {Starter}, AllocTcpClient(t)
    PROVE  ConnInv'
  BY <1>30 DEF AllocTcpClient
<1>31. ASSUME NEW t \in Workers \cup {Starter}, CannotPostAccept(t)
    PROVE  ConnInv'
  BY <1>31 DEF CannotPostAccept, AfterAccept
<1>32. ASSUME NEW t \in Workers \cup {Starter}, IncrementPending(t)
    PROVE  ConnInv'
  BY <1>32 DEF IncrementPending, At
<1>33. ASSUME NEW t \in Workers \cup {Starter}, AcceptExSucceeds(t)
    PROVE  ConnInv'
  BY <1>33 DEF AcceptExSucceeds, At, AfterAccept
<1>34. ASSUME NEW t \in Workers \cup {Starter}, AcceptExFails(t)
    PROVE  ConnInv'
  BY <1>34 DEF AcceptExFails, At, AfterAccept, RemoveFromMap
<1>35. ASSUME NEW t \in Workers \cup {Starter}, AcceptorFaults(t)
    PROVE  ConnInv'
  BY <1>35 DEF AcceptorFaults
<1>36. ASSUME StartFails
    PROVE  ConnInv'
  BY <1>36 DEF StartFails
<1>37. QED
    BY Next, <1>1, <1>2, <1>3, <1>4, <1>5, <1>6, <1>7, <1>8, <1>9, <1>10, <1>11, <1>12,
          <1>13, <1>14, <1>15, <1>16, <1>17, <1>18, <1>19, <1>20, <1>21, <1>22, <1>23, <1>24,
          <1>25, <1>26, <1>27, <1>28, <1>29, <1>30, <1>31, <1>32, <1>33, <1>34, <1>35, <1>36
       DEF Next, ClientNext, AcceptorNext, Kernel, TakeCompletion, CheckReleaseStep, ConnectionStep,
              AppStep, Assist, AcceptConnection, PostAccept

-----------------------------------------------------------------------------
(* The references. *)

LEMMA RefsFinite == \A c \in Clients : IsFiniteSet(RefHolders(c))
<1>1. ASSUME NEW c \in Clients PROVE RefHolders(c) \in SUBSET Threads
  BY DEF RefHolders, Threads
<1>2. QED BY <1>1, FiniteSystem, FS_Subset

\* Whoever holds a reference finds it counted.
LEMMA RefPositive ==
    ASSUME TypeOK, ConnInv, RefInv, NEW a \in AppThreads, pc[a] \in RefPCs
    PROVE  cur[a] \in Clients /\ refCount[cur[a]] > 0
<1>1. cur[a] \in Clients
  BY DEF ConnInv, AllocInv, RefPCs, WorkPCs, TouchingPCs, Threads
<1>2. a \in RefHolders(cur[a])
  BY DEF RefHolders
<1>3. Cardinality(RefHolders(cur[a])) \in Nat /\ Cardinality(RefHolders(cur[a])) # 0
  BY <1>1, <1>2, RefsFinite, FS_CardinalityType, FS_EmptySet
<1>4. QED BY <1>1, <1>3 DEF RefInv, RefCounted

LEMMA NamedGrows ==
    ASSUME NEW c, told[c] \subseteq told'[c]
    PROVE  Named(c) => Named(c)'
BY DEF Named

LEMMA RefTaken ==
    ASSUME ClientTypeOK, RefCounted, NEW c \in Clients, NEW a, a \notin RefHolders(c),
           RefHolders(c)' = RefHolders(c) \cup {a},
           \A d \in Clients \ {c} : RefHolders(d)' = RefHolders(d),
           refCount' = [refCount EXCEPT ![c] = @ + 1]
    PROVE  RefCounted'
<1>1. Cardinality(RefHolders(c)') = Cardinality(RefHolders(c)) + 1
  BY RefsFinite, FS_AddElement
<1>2. QED BY <1>1 DEF RefCounted, ClientTypeOK

LEMMA RefGiven ==
    ASSUME ClientTypeOK, RefCounted, NEW c \in Clients, NEW a, a \in RefHolders(c),
           RefHolders(c)' = RefHolders(c) \ {a},
           \A d \in Clients \ {c} : RefHolders(d)' = RefHolders(d),
           refCount' = [refCount EXCEPT ![c] = @ - 1]
    PROVE  RefCounted'
<1>1. Cardinality(RefHolders(c)') = Cardinality(RefHolders(c)) - 1
  BY RefsFinite, FS_RemoveElement
<1>2. QED BY <1>1 DEF RefCounted, ClientTypeOK

LEMMA RefNamedStep ==
    ASSUME TypeOK, ConnInv, RefInv, Next
    PROVE  RefNamed'
<1> USE ThreadsDisjoint
        DEF TypeOK, ClientTypeOK, ThreadTypeOK, Goto, Threads, poolVars, ConnInv, AllocInv, NamedInv,
            Named, RefInv, RefNamed, RefPCs
<1>1. ASSUME NEW x \in Ctx, KernelCompletes(x), UNCHANGED acceptorVars
    PROVE  RefNamed'
  BY <1>1 DEF KernelCompletes
<1>2. ASSUME NEW x \in Ctx, KernelAborts(x), UNCHANGED acceptorVars
    PROVE  RefNamed'
  BY <1>2 DEF KernelAborts
<1>3. ASSUME NEW c \in Clients, GoesStale(c), UNCHANGED acceptorVars
    PROVE  RefNamed'
  BY <1>3 DEF GoesStale
<1>4. ASSUME NEW w \in Workers, NEW c \in Clients, RecvCompleted(w, c), UNCHANGED acceptorVars
    PROVE  RefNamed'
  BY <1>4 DEF RecvCompleted, Dequeue, ClientOf
<1>5. ASSUME NEW w \in Workers, NEW x \in IOContexts,
           SendCompleted(w, x), UNCHANGED acceptorVars
    PROVE  RefNamed'
  BY <1>5 DEF SendCompleted, Dequeue, ReleaseContext, ClientOf
<1>6. ASSUME NEW w \in Workers, NEW x \in IOContexts,
           SpecialCompleted(w, x), UNCHANGED acceptorVars
    PROVE  RefNamed'
  BY <1>6 DEF SpecialCompleted, Dequeue, ReleaseContext, ClientOf
<1>7. ASSUME NEW w \in Workers, NEW x \in Ctx, DequeueFaults(w, x), UNCHANGED acceptorVars
    PROVE  RefNamed'
  BY <1>7 DEF DequeueFaults, ClientOf
<1>8. ASSUME NEW w \in Workers, OnRecvCompletion(w), UNCHANGED acceptorVars
    PROVE  RefNamed'
  <2>1. \A d \in Clients : told[d] \subseteq told'[d]
    BY <1>8 DEF OnRecvCompletion, At, Tell
  <2> HIDE DEF Named
  <2>2. \A d \in Clients : Named(d) => Named(d)'
    BY <2>1, NamedGrows
  <2>3. \A a \in AppThreads : pc'[a] \in RefPCs => cur'[a] = cur[a] /\ pc[a] \in RefPCs
    BY <1>8 DEF OnRecvCompletion, At
  <2>4. \A a \in AppThreads : pc[a] \in RefPCs => cur[a] \in Clients
    BY DEF WorkPCs, TouchingPCs
  <2>5. QED BY <1>8, <2>2, <2>3, <2>4 DEF OnRecvCompletion, Named
<1>9. ASSUME NEW w \in Workers, PostRecv(w, "postRecv", "issueRecv"), UNCHANGED acceptorVars
    PROVE  RefNamed'
  BY <1>9 DEF PostRecv, At
<1>10. ASSUME NEW w \in Workers,
           IssueRecv(w, "issueRecv", "release", "disconnect"), UNCHANGED acceptorVars
    PROVE  RefNamed'
  BY <1>10 DEF IssueRecv, At
<1>11. ASSUME NEW w \in Workers, SetDisconnect(w), UNCHANGED acceptorVars
    PROVE  RefNamed'
  BY <1>11 DEF SetDisconnect, At
<1>12. ASSUME NEW t \in Workers \cup AppThreads, DecreaseIOCount(t), UNCHANGED acceptorVars
    PROVE  RefNamed'
  BY <1>12 DEF DecreaseIOCount, At, Return
<1>13. ASSUME NEW t \in Workers \cup AppThreads, MarkClosed(t), UNCHANGED acceptorVars
    PROVE  RefNamed'
  BY <1>13 DEF MarkClosed, At
<1>14. ASSUME NEW t \in Workers \cup AppThreads, ReportClosed(t), UNCHANGED acceptorVars
    PROVE  RefNamed'
  <2>1. \A d \in Clients : told[d] \subseteq told'[d]
    BY <1>14 DEF ReportClosed, At, Tell
  <2> HIDE DEF Named
  <2>2. \A d \in Clients : Named(d) => Named(d)'
    BY <2>1, NamedGrows
  <2>3. \A a \in AppThreads : pc'[a] \in RefPCs => cur'[a] = cur[a] /\ pc[a] \in RefPCs
    BY <1>14 DEF ReportClosed, At, Return
  <2>4. \A a \in AppThreads : pc[a] \in RefPCs => cur[a] \in Clients
    BY DEF WorkPCs, TouchingPCs
  <2>5. QED BY <1>14, <2>2, <2>3, <2>4, ZenonT(60) DEF ReportClosed, Named
<1>15. ASSUME NEW t \in Workers \cup AppThreads, RemoveClient(t), UNCHANGED acceptorVars
    PROVE  RefNamed'
  BY <1>15, RefPositive DEF RemoveClient, At, Return, RemoveFromMap
<1>16. ASSUME NEW a \in AppThreads, NEW c \in Clients, FindClient(a, c), UNCHANGED acceptorVars
    PROVE  RefNamed'
  BY <1>16 DEF FindClient
<1>17. ASSUME NEW a \in AppThreads, PostSend(a), UNCHANGED acceptorVars
    PROVE  RefNamed'
  BY <1>17 DEF PostSend, At, UseContext, FreeContexts
<1>18. ASSUME NEW a \in AppThreads, CloseSocket(a), UNCHANGED acceptorVars
    PROVE  RefNamed'
  BY <1>18 DEF CloseSocket, At, PostSpecial, UseContext, FreeContexts
<1>19. ASSUME NEW a \in AppThreads, UnRef(a), UNCHANGED acceptorVars
    PROVE  RefNamed'
  BY <1>19 DEF UnRef, At
<1>20. ASSUME NEW t \in Threads, Faults(t), UNCHANGED acceptorVars
    PROVE  RefNamed'
  BY <1>20 DEF Faults
<1>21. ASSUME NEW c \in Clients, CheckStatus(c), UNCHANGED acceptorVars
    PROVE  RefNamed'
  BY <1>21, RefPositive DEF CheckStatus, PostSpecial, UseContext, FreeContexts, Unused
<1>22. ASSUME NEW c \in Clients, CheckStatusFails(c), UNCHANGED acceptorVars
    PROVE  RefNamed'
  BY <1>22, RefPositive DEF CheckStatusFails, RemoveFromMap, Unused, Tell
<1>23. ASSUME NEW w \in Workers, NEW c \in Clients, AcceptCompleted(w, c)
    PROVE  RefNamed'
  <2>1. \A a \in AppThreads : pc'[a] = pc[a] /\ cur'[a] = cur[a]
    BY <1>23 DEF AcceptCompleted
  <2>2. QED BY <1>23, <2>1 DEF AcceptCompleted
<1>24. ASSUME NEW w \in Workers,
           PostRecv(w, "acceptPostRecv", "acceptIssueRecv"), UNCHANGED acceptorVars
    PROVE  RefNamed'
  BY <1>24 DEF PostRecv, At
<1>25. ASSUME NEW w \in Workers,
           IssueRecv(w, "acceptIssueRecv", "accepted", "acceptFailed"), UNCHANGED acceptorVars
    PROVE  RefNamed'
  BY <1>25 DEF IssueRecv, At
<1>26. ASSUME NEW w \in Workers, ReportConnected(w)
    PROVE  RefNamed'
  BY <1>26 DEF ReportConnected, At, Tell
<1>27. ASSUME NEW w \in Workers, DropClient(w)
    PROVE  RefNamed'
  BY <1>27 DEF DropClient, At
<1>28. ASSUME NEW w \in Workers, RemoveDropped(w)
    PROVE  RefNamed'
  <2>1. \A a \in AppThreads : pc'[a] = pc[a] /\ cur'[a] = cur[a]
    BY <1>28 DEF RemoveDropped
  <2>2. \A a \in AppThreads : pc[a] \in RefPCs => cur[a] # cur[w]
    BY <1>28 DEF RemoveDropped, PumpOp, WorkPCs, TouchingPCs
  <2>3. \A d \in Clients \ {cur[w]} : mem'[d] = mem[d]
    BY <1>28 DEF RemoveDropped, RemoveFromMap
  <2>4. QED BY <1>28, <2>1, <2>2, <2>3 DEF RemoveDropped, WorkPCs, TouchingPCs
<1>29. ASSUME NEW w \in Workers, DecrementPending(w)
    PROVE  RefNamed'
  BY <1>29 DEF DecrementPending
<1>30. ASSUME NEW t \in Workers \cup {Starter}, AllocTcpClient(t)
    PROVE  RefNamed'
  BY <1>30 DEF AllocTcpClient
<1>31. ASSUME NEW t \in Workers \cup {Starter}, CannotPostAccept(t)
    PROVE  RefNamed'
  BY <1>31 DEF CannotPostAccept, AfterAccept
<1>32. ASSUME NEW t \in Workers \cup {Starter}, IncrementPending(t)
    PROVE  RefNamed'
  BY <1>32 DEF IncrementPending, At
<1>33. ASSUME NEW t \in Workers \cup {Starter}, AcceptExSucceeds(t)
    PROVE  RefNamed'
  BY <1>33 DEF AcceptExSucceeds, At, AfterAccept
<1>34. ASSUME NEW t \in Workers \cup {Starter}, AcceptExFails(t)
    PROVE  RefNamed'
  <2>1. \A a \in AppThreads : pc'[a] = pc[a] /\ cur'[a] = cur[a]
    BY <1>34 DEF AcceptExFails, At, AfterAccept
  <2>2. \A a \in AppThreads : pc[a] \in RefPCs => cur[a] # cur[t]
    BY <1>34 DEF AcceptExFails, At, AfterAccept, PumpOp, WorkPCs, TouchingPCs
  <2>3. \A d \in Clients \ {cur[t]} : mem'[d] = mem[d]
    BY <1>34 DEF AcceptExFails, At, AfterAccept, RemoveFromMap
  <2>4. QED BY <1>34, <2>1, <2>2, <2>3 DEF AcceptExFails, WorkPCs, TouchingPCs
<1>35. ASSUME NEW t \in Workers \cup {Starter}, AcceptorFaults(t)
    PROVE  RefNamed'
  BY <1>35 DEF AcceptorFaults
<1>36. ASSUME StartFails
    PROVE  RefNamed'
  BY <1>36 DEF StartFails
<1>37. QED
    BY Next, <1>1, <1>2, <1>3, <1>4, <1>5, <1>6, <1>7, <1>8, <1>9, <1>10, <1>11, <1>12,
          <1>13, <1>14, <1>15, <1>16, <1>17, <1>18, <1>19, <1>20, <1>21, <1>22, <1>23, <1>24,
          <1>25, <1>26, <1>27, <1>28, <1>29, <1>30, <1>31, <1>32, <1>33, <1>34, <1>35, <1>36
       DEF Next, ClientNext, AcceptorNext, Kernel, TakeCompletion, CheckReleaseStep, ConnectionStep,
              AppStep, Assist, AcceptConnection, PostAccept

\* DropClient is the step that resets a count: nobody can have a reference then.
LEMMA RefCountedStep ==
    ASSUME TypeOK, ConnInv, RefInv, Next
    PROVE  RefCounted'
<1> DEFINE Kept == refCount' = refCount /\ \A d \in Clients : RefHolders(d)' = RefHolders(d)
<1> USE ThreadsDisjoint
        DEF TypeOK, ThreadTypeOK, RefInv, Goto, Threads, poolVars, RefHolders, RefPCs
<1>1. ASSUME NEW x \in Ctx, KernelCompletes(x), UNCHANGED acceptorVars
    PROVE  Kept
  BY <1>1 DEF KernelCompletes
<1>2. ASSUME NEW x \in Ctx, KernelAborts(x), UNCHANGED acceptorVars
    PROVE  Kept
  BY <1>2 DEF KernelAborts
<1>3. ASSUME NEW c \in Clients, GoesStale(c), UNCHANGED acceptorVars
    PROVE  Kept
  BY <1>3 DEF GoesStale
<1>4. ASSUME NEW w \in Workers, NEW c \in Clients, RecvCompleted(w, c), UNCHANGED acceptorVars
    PROVE  Kept
  BY <1>4 DEF RecvCompleted, Dequeue, ClientOf
<1>5. ASSUME NEW w \in Workers, NEW x \in IOContexts,
           SendCompleted(w, x), UNCHANGED acceptorVars
    PROVE  Kept
  BY <1>5 DEF SendCompleted, Dequeue, ReleaseContext, ClientOf
<1>6. ASSUME NEW w \in Workers, NEW x \in IOContexts,
           SpecialCompleted(w, x), UNCHANGED acceptorVars
    PROVE  Kept
  BY <1>6 DEF SpecialCompleted, Dequeue, ReleaseContext, ClientOf
<1>7. ASSUME NEW w \in Workers, NEW x \in Ctx, DequeueFaults(w, x), UNCHANGED acceptorVars
    PROVE  Kept
  BY <1>7 DEF DequeueFaults, ClientOf
<1>8. ASSUME NEW w \in Workers, OnRecvCompletion(w), UNCHANGED acceptorVars
    PROVE  Kept
  BY <1>8 DEF OnRecvCompletion, At, Tell
<1>9. ASSUME NEW w \in Workers, PostRecv(w, "postRecv", "issueRecv"), UNCHANGED acceptorVars
    PROVE  Kept
  BY <1>9 DEF PostRecv, At
<1>10. ASSUME NEW w \in Workers,
           IssueRecv(w, "issueRecv", "release", "disconnect"), UNCHANGED acceptorVars
    PROVE  Kept
  BY <1>10 DEF IssueRecv, At
<1>11. ASSUME NEW w \in Workers, SetDisconnect(w), UNCHANGED acceptorVars
    PROVE  Kept
  BY <1>11 DEF SetDisconnect, At
<1>12. ASSUME NEW t \in Workers \cup AppThreads, DecreaseIOCount(t), UNCHANGED acceptorVars
    PROVE  Kept
  BY <1>12 DEF DecreaseIOCount, At, Return
<1>13. ASSUME NEW t \in Workers \cup AppThreads, MarkClosed(t), UNCHANGED acceptorVars
    PROVE  Kept
  BY <1>13 DEF MarkClosed, At
<1>14. ASSUME NEW t \in Workers \cup AppThreads, ReportClosed(t), UNCHANGED acceptorVars
    PROVE  Kept
  BY <1>14 DEF ReportClosed, At, Return, Tell
<1>15. ASSUME NEW t \in Workers \cup AppThreads, RemoveClient(t), UNCHANGED acceptorVars
    PROVE  Kept
  BY <1>15 DEF RemoveClient, At, Return, RemoveFromMap
<1>16. ASSUME NEW a \in AppThreads, NEW c \in Clients, FindClient(a, c), UNCHANGED acceptorVars
    PROVE  RefCounted'
  <2>1. RefHolders(c)' = RefHolders(c) \cup {a} /\ a \notin RefHolders(c)
    BY <1>16 DEF FindClient
  <2>2. \A d \in Clients \ {c} : RefHolders(d)' = RefHolders(d)
    BY <1>16 DEF FindClient
  <2>3. refCount' = [refCount EXCEPT ![c] = @ + 1]
    BY <1>16 DEF FindClient
  <2> HIDE DEF RefHolders
  <2>4. QED BY <2>1, <2>2, <2>3, RefTaken
<1>17. ASSUME NEW a \in AppThreads, PostSend(a), UNCHANGED acceptorVars
    PROVE  Kept
  BY <1>17 DEF PostSend, At, UseContext, FreeContexts
<1>18. ASSUME NEW a \in AppThreads, CloseSocket(a), UNCHANGED acceptorVars
    PROVE  Kept
  BY <1>18 DEF CloseSocket, At, PostSpecial, UseContext, FreeContexts
<1>19. ASSUME NEW a \in AppThreads, UnRef(a), UNCHANGED acceptorVars
    PROVE  RefCounted'
  <2>1. PICK c \in Clients : c = cur[a] /\ a \in RefHolders(c)
    BY <1>19, RefPositive DEF UnRef, At
  <2>2. RefHolders(c)' = RefHolders(c) \ {a}
    BY <1>19, <2>1, NoClientFresh DEF UnRef, At
  <2>3. \A d \in Clients \ {c} : RefHolders(d)' = RefHolders(d)
    BY <1>19, <2>1 DEF UnRef, At
  <2>4. refCount' = [refCount EXCEPT ![c] = @ - 1]
    BY <1>19, <2>1 DEF UnRef
  <2> HIDE DEF RefHolders
  <2>5. QED BY <2>1, <2>2, <2>3, <2>4, RefGiven
<1>20. ASSUME NEW t \in Threads, Faults(t), UNCHANGED acceptorVars
    PROVE  Kept
  BY <1>20, RefPositive DEF Faults, RefNamed, RefInv, TouchingPCs
<1>21. ASSUME NEW c \in Clients, CheckStatus(c), UNCHANGED acceptorVars
    PROVE  Kept
  BY <1>21 DEF CheckStatus, PostSpecial, UseContext, FreeContexts, Unused
<1>22. ASSUME NEW c \in Clients, CheckStatusFails(c), UNCHANGED acceptorVars
    PROVE  Kept
  BY <1>22 DEF CheckStatusFails, RemoveFromMap, Unused, Tell
<1>23. ASSUME NEW w \in Workers, NEW c \in Clients, AcceptCompleted(w, c)
    PROVE  Kept
  BY <1>23 DEF AcceptCompleted
<1>24. ASSUME NEW w \in Workers,
           PostRecv(w, "acceptPostRecv", "acceptIssueRecv"), UNCHANGED acceptorVars
    PROVE  Kept
  BY <1>24 DEF PostRecv, At
<1>25. ASSUME NEW w \in Workers,
           IssueRecv(w, "acceptIssueRecv", "accepted", "acceptFailed"), UNCHANGED acceptorVars
    PROVE  Kept
  BY <1>25 DEF IssueRecv, At
<1>26. ASSUME NEW w \in Workers, ReportConnected(w)
    PROVE  Kept
  BY <1>26 DEF ReportConnected, At, Tell
<1>27. ASSUME NEW w \in Workers, DropClient(w)
    PROVE  RefCounted'
  <2>1. PICK c \in Clients : c = cur[w] /\ ~Named(c)
    BY <1>27 DEF DropClient, At, ConnInv, AllocInv, NamedInv, WorkPCs, TouchingPCs
  <2>2. RefHolders(c) = {}
    BY <2>1 DEF RefNamed
  <2>3. \A d \in Clients : RefHolders(d)' = RefHolders(d)
    BY <1>27 DEF DropClient, At
  <2>4. refCount' = [refCount EXCEPT ![c] = 0]
    BY <1>27, <2>1 DEF DropClient
  <2> HIDE DEF RefHolders
  <2>5. QED BY <2>1, <2>2, <2>3, <2>4, FS_EmptySet DEF RefCounted, ClientTypeOK
<1>28. ASSUME NEW w \in Workers, RemoveDropped(w)
    PROVE  Kept
  BY <1>28 DEF RemoveDropped, RemoveFromMap
<1>29. ASSUME NEW w \in Workers, DecrementPending(w)
    PROVE  Kept
  BY <1>29 DEF DecrementPending
<1>30. ASSUME NEW t \in Workers \cup {Starter}, AllocTcpClient(t)
    PROVE  Kept
  BY <1>30 DEF AllocTcpClient
<1>31. ASSUME NEW t \in Workers \cup {Starter}, CannotPostAccept(t)
    PROVE  Kept
  BY <1>31 DEF CannotPostAccept, AfterAccept
<1>32. ASSUME NEW t \in Workers \cup {Starter}, IncrementPending(t)
    PROVE  Kept
  BY <1>32 DEF IncrementPending, At
<1>33. ASSUME NEW t \in Workers \cup {Starter}, AcceptExSucceeds(t)
    PROVE  Kept
  BY <1>33 DEF AcceptExSucceeds, At, AfterAccept
<1>34. ASSUME NEW t \in Workers \cup {Starter}, AcceptExFails(t)
    PROVE  Kept
  BY <1>34 DEF AcceptExFails, At, AfterAccept, RemoveFromMap
<1>35. ASSUME NEW t \in Workers \cup {Starter}, AcceptorFaults(t)
    PROVE  Kept
  BY <1>35 DEF AcceptorFaults
<1>36. ASSUME StartFails
    PROVE  Kept
  BY <1>36 DEF StartFails
<1>37. Kept => RefCounted'
    BY DEF RefCounted
<1>38. QED
    BY Next, <1>37,
          <1>1, <1>2, <1>3, <1>4, <1>5, <1>6, <1>7, <1>8, <1>9, <1>10, <1>11, <1>12,
          <1>13, <1>14, <1>15, <1>16, <1>17, <1>18, <1>19, <1>20, <1>21, <1>22, <1>23, <1>24,
          <1>25, <1>26, <1>27, <1>28, <1>29, <1>30, <1>31, <1>32, <1>33, <1>34, <1>35, <1>36
       DEF Next, ClientNext, AcceptorNext, Kernel, TakeCompletion, CheckReleaseStep, ConnectionStep,
              AppStep, Assist, AcceptConnection, PostAccept

LEMMA RefIInvStep == RefIInv /\ [Next]_vars => RefIInv'
<1>1. CASE Next
  BY <1>1, TypeStep, ConnStep, RefNamedStep, RefCountedStep DEF RefIInv, RefInv
<1>2. ASSUME RefIInv, UNCHANGED vars
      PROVE  RefIInv'
  <2>1. TypeOK' /\ StartInv'
    BY <1>2, TypeStep DEF RefIInv
  <2>2. ConnInv'
    BY <1>2 DEF RefIInv, vars, poolVars, connVars, ctxVars, ConnInv, AllocInv, OnePump, PumpIO,
                PumpOp, NamedInv, Named
  <2>3. RefNamed' /\ \A c \in Clients : RefHolders(c)' = RefHolders(c)
    BY <1>2 DEF RefIInv, vars, poolVars, RefInv, RefNamed, Named, RefHolders
  <2>4. RefCounted'
    BY <1>2, <2>3 DEF RefIInv, vars, poolVars, RefInv, RefCounted
  <2>5. QED BY <2>1, <2>2, <2>3, <2>4 DEF RefIInv, RefInv
<1>3. QED BY <1>1, <1>2

LEMMA RefIInvInit == Init => RefIInv
<1> SUFFICES ASSUME Init PROVE RefIInv
  OBVIOUS
<1>1. TypeOK /\ StartInv
  BY TypeInit
<1>2. ConnInv
  BY ThreadsDisjoint DEF Init, Threads, Ctx, ConnInv, AllocInv, OnePump, PumpIO, PumpOp, NamedInv,
         Named, EarlyPCs, PumpPCs, OpenerPCs, WorkPCs, TouchingPCs
<1>3. RefNamed /\ \A c \in Clients : RefHolders(c) = {}
  BY ThreadsDisjoint DEF Init, Threads, RefNamed, RefHolders, RefPCs
<1>4. RefCounted
  BY <1>3, FS_EmptySet DEF Init, RefCounted
<1>5. QED BY <1>1, <1>2, <1>3, <1>4 DEF RefIInv, RefInv

THEOREM RefIInvCorrect == Spec => []RefIInv
<1>1. RefIInv /\ [Next]_vars => RefIInv'
  BY RefIInvStep
<1>2. QED BY <1>1, RefIInvInit, PTL DEF Spec

\* A TcpClientRef keeps its client: no application thread ever works on a freed
\* one, whatever the workers and checkStatus do and whatever fails.
THEOREM ReferencesProtect == Spec => []RefProtects
<1>1. RefIInv => RefProtects
  BY RefPositive DEF RefIInv, RefInv, RefNamed, RefProtects
<1>2. QED BY <1>1, RefIInvCorrect, PTL

-----------------------------------------------------------------------------
(* The two counts.  mPendingIO is exact as long as                          *)
(* PostQueuedCompletionStatus does not fail; callbacks may throw.           *)
(* mPendingAcceptCount never says less than what is there, and is exact     *)
(* unless a thread is lost.  Each count is compared with the set of its     *)
(* holders: a step leaves that set alone, adds or removes one holder        *)
(* together with one count, or hands a count from an operation to the       *)
(* worker that dequeued it.                                                 *)

\* The clients whose count is compared, and the comparison, which also says that
\* a client that was never allocated has no operation.
Counts(c) == mem[c] # "freed" /\ ~Dropped(c)
IOCounted == \A c \in Clients : Counts(c) => pendingIO[c] = Cardinality(Holders(c))
CountIInv == RefIInv /\ IOCounted

\* Operations and threads are finite, so are the holders of a count.
LEMMA HoldersFinite == \A c \in Clients : IsFiniteSet(Holders(c))
<1>1. ASSUME NEW c \in Clients PROVE Holders(c) \in SUBSET (Ctx \cup Threads)
  BY DEF Holders
<1>2. IsFiniteSet(Ctx \cup Threads)
  BY FiniteSystem, FS_Union
<1>3. QED BY <1>1, <1>2, FS_Subset

\* Comparing counts with holders: a step leaves both alone ...
LEMMA HoldersKept ==
    ASSUME IOCounted,
           \A d \in Clients : Counts(d)' =>
               Counts(d) /\ pendingIO'[d] = pendingIO[d] /\ Holders(d)' = Holders(d)
    PROVE  IOCounted'
BY DEF IOCounted

\* ... adds one holder and one count ...
LEMMA HolderAdded ==
    ASSUME IOCounted, ClientTypeOK, \A d \in Clients : Counts(d)' => Counts(d),
           NEW c \in Clients, NEW h, h \notin Holders(c),
           Holders(c)' = Holders(c) \cup {h},
           \A d \in Clients \ {c} : Holders(d)' = Holders(d),
           pendingIO' = [pendingIO EXCEPT ![c] = @ + 1]
    PROVE  IOCounted'
<1>1. Cardinality(Holders(c)') = Cardinality(Holders(c)) + 1
  BY HoldersFinite, FS_AddElement
<1>2. QED BY <1>1 DEF IOCounted, ClientTypeOK

\* ... takes one of each away ...
LEMMA HolderRemoved ==
    ASSUME IOCounted, ClientTypeOK, \A d \in Clients : Counts(d)' => Counts(d),
           NEW c \in Clients, NEW h, h \in Holders(c),
           Holders(c)' = Holders(c) \ {h},
           \A d \in Clients \ {c} : Holders(d)' = Holders(d),
           pendingIO' = [pendingIO EXCEPT ![c] = @ - 1]
    PROVE  IOCounted'
<1>1. Cardinality(Holders(c)') = Cardinality(Holders(c)) - 1
  BY HoldersFinite, FS_RemoveElement
<1>2. QED BY <1>1 DEF IOCounted, ClientTypeOK

\* ... or hands the count over.
LEMMA HolderSwapped ==
    ASSUME IOCounted, \A d \in Clients : Counts(d)' => Counts(d),
           NEW c \in Clients, NEW h, NEW g, h \in Holders(c), g \notin Holders(c),
           Holders(c)' = (Holders(c) \ {h}) \cup {g},
           \A d \in Clients \ {c} : Holders(d)' = Holders(d),
           UNCHANGED pendingIO
    PROVE  IOCounted'
<1>1. /\ IsFiniteSet(Holders(c) \ {h})
      /\ Cardinality(Holders(c) \ {h}) = Cardinality(Holders(c)) - 1
      /\ Cardinality(Holders(c)) \in Nat
  BY HoldersFinite, FS_RemoveElement, FS_CardinalityType
<1>2. Cardinality(Holders(c)') = Cardinality(Holders(c) \ {h}) + 1
  BY <1>1, FS_AddElement
<1>3. Cardinality(Holders(c)') = Cardinality(Holders(c))
  BY <1>1, <1>2
<1>4. QED BY <1>3 DEF IOCounted

LEMMA CountStep ==
    ASSUME ~SpecialPostFails, RefIInv, IOCounted, Next
    PROVE  IOCounted'
<1> DEFINE Kept == \A d \in Clients : Counts(d)' =>
                       Counts(d) /\ pendingIO'[d] = pendingIO[d] /\ Holders(d)' = Holders(d)
<1> USE ThreadsDisjoint, CtxDisjoint, NoClientFresh
        DEF RefIInv, TypeOK, ClientTypeOK, ContextTypeOK, ThreadTypeOK, Goto, Threads, Ctx, poolVars,
            connVars, ctxVars, ConnInv, AllocInv, PumpIO, PumpOp, WorkPCs, TouchingPCs, EarlyPCs,
            PumpPCs, Counts, Dropped, Holders, OpHolds, ThreadHolds, HoldingPCs, ClientOf, TypeOf
<1>1. ASSUME NEW x \in Ctx, KernelCompletes(x), UNCHANGED acceptorVars
    PROVE  Kept
  BY <1>1 DEF KernelCompletes
<1>2. ASSUME NEW x \in Ctx, KernelAborts(x), UNCHANGED acceptorVars
    PROVE  Kept
  BY <1>2 DEF KernelAborts
<1>3. ASSUME NEW c \in Clients, GoesStale(c), UNCHANGED acceptorVars
    PROVE  Kept
  BY <1>3 DEF GoesStale
<1>4. ASSUME NEW w \in Workers, NEW c \in Clients, RecvCompleted(w, c), UNCHANGED acceptorVars
    PROVE  IOCounted'
  <2>1. c \in Holders(c) /\ w \notin Holders(c) /\ Holders(c)' = (Holders(c) \ {c}) \cup {w}
    BY <1>4 DEF RecvCompleted, Dequeue, ClientOf
  <2>2. \A d \in Clients \ {c} : Holders(d)' = Holders(d)
    BY <1>4 DEF RecvCompleted, Dequeue, ClientOf
  <2>3. UNCHANGED pendingIO /\ \A d \in Clients : Counts(d)' => Counts(d)
    BY <1>4 DEF RecvCompleted, Dequeue, ClientOf
  <2> HIDE DEF Holders, Counts
  <2>4. QED BY <2>1, <2>2, <2>3, HolderSwapped
<1>5. ASSUME NEW w \in Workers, NEW x \in IOContexts,
           SendCompleted(w, x), UNCHANGED acceptorVars
    PROVE  IOCounted'
  <2>1. PICK c \in Clients : c = ctxClient[x]
    BY <1>5 DEF SendCompleted, TypeOf
  <2>2. x \in Holders(c) /\ w \notin Holders(c) /\ Holders(c)' = (Holders(c) \ {x}) \cup {w}
    BY <1>5, <2>1 DEF SendCompleted, Dequeue, ReleaseContext, ClientOf
  <2>3. \A d \in Clients \ {c} : Holders(d)' = Holders(d)
    BY <1>5, <2>1 DEF SendCompleted, Dequeue, ReleaseContext, ClientOf
  <2>4. UNCHANGED pendingIO /\ \A d \in Clients : Counts(d)' => Counts(d)
    BY <1>5 DEF SendCompleted, Dequeue, ReleaseContext, ClientOf
  <2> HIDE DEF Holders, Counts
  <2>5. QED BY <2>2, <2>3, <2>4, HolderSwapped
<1>6. ASSUME NEW w \in Workers, NEW x \in IOContexts,
           SpecialCompleted(w, x), UNCHANGED acceptorVars
    PROVE  IOCounted'
  <2>1. PICK c \in Clients : c = ctxClient[x]
    BY <1>6 DEF SpecialCompleted, TypeOf
  <2>2. x \in Holders(c) /\ w \notin Holders(c) /\ Holders(c)' = (Holders(c) \ {x}) \cup {w}
    BY <1>6, <2>1 DEF SpecialCompleted, Dequeue, ReleaseContext, ClientOf
  <2>3. \A d \in Clients \ {c} : Holders(d)' = Holders(d)
    BY <1>6, <2>1 DEF SpecialCompleted, Dequeue, ReleaseContext, ClientOf
  <2>4. UNCHANGED pendingIO /\ \A d \in Clients : Counts(d)' => Counts(d)
    BY <1>6 DEF SpecialCompleted, Dequeue, ReleaseContext, ClientOf
  <2> HIDE DEF Holders, Counts
  <2>5. QED BY <2>2, <2>3, <2>4, HolderSwapped
<1>7. ASSUME NEW w \in Workers, NEW x \in Ctx, DequeueFaults(w, x), UNCHANGED acceptorVars
    PROVE  Kept
  BY <1>7 DEF DequeueFaults, ClientOf
<1>8. ASSUME NEW w \in Workers, OnRecvCompletion(w), UNCHANGED acceptorVars
    PROVE  Kept
  BY <1>8 DEF OnRecvCompletion, At, Tell
<1>9. ASSUME NEW w \in Workers, PostRecv(w, "postRecv", "issueRecv"), UNCHANGED acceptorVars
    PROVE  IOCounted'
  <2>1. PICK c \in Clients : c = cur[w]
    BY <1>9 DEF PostRecv, At
  <2>2. c \notin Holders(c) /\ Holders(c)' = Holders(c) \cup {c}
    BY <1>9, <2>1 DEF PostRecv, At
  <2>3. \A d \in Clients \ {c} : Holders(d)' = Holders(d)
    BY <1>9, <2>1 DEF PostRecv, At
  <2>4. pendingIO' = [pendingIO EXCEPT ![c] = @ + 1] /\ \A d \in Clients : Counts(d)' => Counts(d)
    BY <1>9, <2>1 DEF PostRecv, At
  <2> HIDE DEF Holders, Counts
  <2>5. QED BY <2>2, <2>3, <2>4, HolderAdded
<1>10. ASSUME NEW w \in Workers,
           IssueRecv(w, "issueRecv", "release", "disconnect"), UNCHANGED acceptorVars
    PROVE  IOCounted'
  <2>1. PICK c \in Clients : c = cur[w]
    BY <1>10 DEF IssueRecv, At
  <2>2. \A d \in Clients : Counts(d)' => Counts(d)
    BY <1>10 DEF IssueRecv, At
  <2>3. CASE pc'[w] = "release"
    <3>1. UNCHANGED pendingIO /\ \A d \in Clients : Holders(d)' = Holders(d)
      BY <1>10, <2>3 DEF IssueRecv, At
    <3> HIDE DEF Holders, Counts
    <3>2. QED BY <2>2, <3>1, HoldersKept
  <2>4. CASE pc'[w] # "release"
    <3>1. c \in Holders(c) /\ Holders(c)' = Holders(c) \ {c}
      BY <1>10, <2>1, <2>4 DEF IssueRecv, At
    <3>2. \A d \in Clients \ {c} : Holders(d)' = Holders(d)
      BY <1>10, <2>1, <2>4 DEF IssueRecv, At
    <3>3. pendingIO' = [pendingIO EXCEPT ![c] = @ - 1]
      BY <1>10, <2>1, <2>4 DEF IssueRecv, At
    <3> HIDE DEF Holders, Counts
    <3>4. QED BY <2>2, <3>1, <3>2, <3>3, HolderRemoved
  <2>5. QED BY <2>3, <2>4
<1>11. ASSUME NEW w \in Workers, SetDisconnect(w), UNCHANGED acceptorVars
    PROVE  Kept
  BY <1>11 DEF SetDisconnect, At
<1>12. ASSUME NEW t \in Workers \cup AppThreads, DecreaseIOCount(t), UNCHANGED acceptorVars
    PROVE  IOCounted'
  <2>1. PICK c \in Clients : c = cur[t]
    BY <1>12 DEF DecreaseIOCount, At, Return
  <2>2. t \in Holders(c) /\ Holders(c)' = Holders(c) \ {t}
    BY <1>12, <2>1 DEF DecreaseIOCount, At, Return
  <2>3. \A d \in Clients \ {c} : Holders(d)' = Holders(d)
    BY <1>12, <2>1 DEF DecreaseIOCount, At, Return
  <2>4. pendingIO' = [pendingIO EXCEPT ![c] = @ - 1] /\ \A d \in Clients : Counts(d)' => Counts(d)
    BY <1>12, <2>1 DEF DecreaseIOCount, At, Return
  <2> HIDE DEF Holders, Counts
  <2>5. QED BY <2>2, <2>3, <2>4, HolderRemoved
<1>13. ASSUME NEW t \in Workers \cup AppThreads, MarkClosed(t), UNCHANGED acceptorVars
    PROVE  Kept
  BY <1>13 DEF MarkClosed, At
<1>14. ASSUME NEW t \in Workers \cup AppThreads, ReportClosed(t), UNCHANGED acceptorVars
    PROVE  Kept
  BY <1>14 DEF ReportClosed, At, Return, Tell
<1>15. ASSUME NEW t \in Workers \cup AppThreads, RemoveClient(t), UNCHANGED acceptorVars
    PROVE  Kept
  BY <1>15 DEF RemoveClient, At, Return, RemoveFromMap
<1>16. ASSUME NEW a \in AppThreads, NEW c \in Clients, FindClient(a, c), UNCHANGED acceptorVars
    PROVE  Kept
  BY <1>16 DEF FindClient
<1>17. ASSUME NEW a \in AppThreads, PostSend(a), UNCHANGED acceptorVars
    PROVE  IOCounted'
  <2>1. PICK c \in Clients : c = cur[a]
    BY <1>17 DEF PostSend, At
  <2>2. \A d \in Clients : Counts(d)' => Counts(d)
    BY <1>17 DEF PostSend, At
  <2>3. ASSUME NEW x \in FreeContexts, UseContext(x, c, "send", "kernel"), Goto(a, "unref"),
               pendingIO' = [pendingIO EXCEPT ![c] = @ + 1]
        PROVE  IOCounted'
    <3>1. x \notin Holders(c) /\ Holders(c)' = Holders(c) \cup {x}
      BY <1>17, <2>1, <2>3 DEF PostSend, At, UseContext, FreeContexts
    <3>2. \A d \in Clients \ {c} : Holders(d)' = Holders(d)
      BY <1>17, <2>1, <2>3 DEF PostSend, At, UseContext, FreeContexts
    <3> HIDE DEF Holders, Counts
    <3>3. QED BY <2>2, <2>3, <3>1, <3>2, HolderAdded
  <2>4. ASSUME Goto(a, "release"), UNCHANGED <<io, ctxVars>>,
               pendingIO' = [pendingIO EXCEPT ![c] = @ + 1]
        PROVE  IOCounted'
    <3>1. a \notin Holders(c) /\ Holders(c)' = Holders(c) \cup {a}
      BY <1>17, <2>1, <2>4 DEF PostSend, At
    <3>2. \A d \in Clients \ {c} : Holders(d)' = Holders(d)
      BY <1>17, <2>1, <2>4 DEF PostSend, At
    <3> HIDE DEF Holders, Counts
    <3>3. QED BY <2>2, <2>4, <3>1, <3>2, HolderAdded
  <2>5. ASSUME Goto(a, "unref"), UNCHANGED <<io, ctxVars, pendingIO>>
        PROVE  IOCounted'
    <3>1. \A d \in Clients : Holders(d)' = Holders(d)
      BY <1>17, <2>5 DEF PostSend, At
    <3> HIDE DEF Holders, Counts
    <3>2. QED BY <2>2, <2>5, <3>1, HoldersKept
  <2> HIDE DEF Goto, ctxVars, IOCounted
  <2>6. QED BY <1>17, <2>1, <2>3, <2>4, <2>5 DEF PostSend
<1>18. ASSUME NEW a \in AppThreads, CloseSocket(a), UNCHANGED acceptorVars
    PROVE  IOCounted'
  <2>1. PICK c \in Clients : c = cur[a]
    BY <1>18 DEF CloseSocket, At
  <2>2. PICK x \in FreeContexts : UseContext(x, c, "closed", "done")
    BY <1>18, <2>1 DEF CloseSocket, PostSpecial, PostSpecialFails
  <2>3. x \notin Holders(c) /\ Holders(c)' = Holders(c) \cup {x}
    BY <1>18, <2>1, <2>2 DEF CloseSocket, At, PostSpecial, PostSpecialFails, UseContext, FreeContexts
  <2>4. \A d \in Clients \ {c} : Holders(d)' = Holders(d)
    BY <1>18, <2>1, <2>2 DEF CloseSocket, At, PostSpecial, PostSpecialFails, UseContext, FreeContexts
  <2>5. pendingIO' = [pendingIO EXCEPT ![c] = @ + 1] /\ \A d \in Clients : Counts(d)' => Counts(d)
    BY <1>18, <2>1 DEF CloseSocket, At, PostSpecial, PostSpecialFails
  <2> HIDE DEF Holders, Counts
  <2>6. QED BY <2>3, <2>4, <2>5, HolderAdded
<1>19. ASSUME NEW a \in AppThreads, UnRef(a), UNCHANGED acceptorVars
    PROVE  Kept
  BY <1>19 DEF UnRef, At
<1>20. ASSUME NEW t \in Threads, Faults(t), UNCHANGED acceptorVars
    PROVE  Kept
  BY <1>20 DEF Faults
<1>21. ASSUME NEW c \in Clients, CheckStatus(c), UNCHANGED acceptorVars
    PROVE  IOCounted'
  <2>1. \A d \in Clients : Counts(d)' => Counts(d)
    BY <1>21 DEF CheckStatus, Unused
  <2>2. CASE ~stale[c]
    <3>1. UNCHANGED pendingIO /\ \A d \in Clients : Holders(d)' = Holders(d)
      BY <1>21, <2>2 DEF CheckStatus
    <3> HIDE DEF Holders, Counts
    <3>2. QED BY <2>1, <3>1, HoldersKept
  <2>3. CASE stale[c]
    <3>1. PICK x \in FreeContexts : UseContext(x, c, "timeout", "done")
      BY <1>21, <2>3 DEF CheckStatus, PostSpecial
    <3>2. x \notin Holders(c) /\ Holders(c)' = Holders(c) \cup {x}
      BY <1>21, <2>3, <3>1 DEF CheckStatus, UseContext, FreeContexts
    <3>3. \A d \in Clients \ {c} : Holders(d)' = Holders(d)
      BY <1>21, <2>3, <3>1 DEF CheckStatus, UseContext, FreeContexts
    <3>4. pendingIO' = [pendingIO EXCEPT ![c] = @ + 1]
      BY <1>21, <2>3 DEF CheckStatus, PostSpecial
    <3> HIDE DEF Holders, Counts
    <3>5. QED BY <2>1, <3>2, <3>3, <3>4, HolderAdded
  <2>4. QED BY <2>2, <2>3
<1>22. ASSUME NEW c \in Clients, CheckStatusFails(c), UNCHANGED acceptorVars
    PROVE  Kept
  BY <1>22 DEF CheckStatusFails, PostSpecialFails
<1>23. ASSUME NEW w \in Workers, NEW c \in Clients, AcceptCompleted(w, c)
    PROVE  Kept
  BY <1>23 DEF AcceptCompleted
<1>24. ASSUME NEW w \in Workers,
           PostRecv(w, "acceptPostRecv", "acceptIssueRecv"), UNCHANGED acceptorVars
    PROVE  IOCounted'
  <2>1. PICK c \in Clients : c = cur[w]
    BY <1>24 DEF PostRecv, At
  <2>2. c \notin Holders(c) /\ Holders(c)' = Holders(c) \cup {c}
    BY <1>24, <2>1 DEF PostRecv, At
  <2>3. \A d \in Clients \ {c} : Holders(d)' = Holders(d)
    BY <1>24, <2>1 DEF PostRecv, At
  <2>4. pendingIO' = [pendingIO EXCEPT ![c] = @ + 1] /\ \A d \in Clients : Counts(d)' => Counts(d)
    BY <1>24, <2>1 DEF PostRecv, At
  <2> HIDE DEF Holders, Counts
  <2>5. QED BY <2>2, <2>3, <2>4, HolderAdded
<1>25. ASSUME NEW w \in Workers,
           IssueRecv(w, "acceptIssueRecv", "accepted", "acceptFailed"), UNCHANGED acceptorVars
    PROVE  IOCounted'
  <2>1. PICK c \in Clients : c = cur[w]
    BY <1>25 DEF IssueRecv, At
  <2>2. \A d \in Clients : Counts(d)' => Counts(d)
    BY <1>25 DEF IssueRecv, At
  <2>3. CASE pc'[w] = "accepted"
    <3>1. UNCHANGED pendingIO /\ \A d \in Clients : Holders(d)' = Holders(d)
      BY <1>25, <2>3 DEF IssueRecv, At
    <3> HIDE DEF Holders, Counts
    <3>2. QED BY <2>2, <3>1, HoldersKept
  <2>4. CASE pc'[w] # "accepted"
    <3>1. c \in Holders(c) /\ Holders(c)' = Holders(c) \ {c}
      BY <1>25, <2>1, <2>4 DEF IssueRecv, At
    <3>2. \A d \in Clients \ {c} : Holders(d)' = Holders(d)
      BY <1>25, <2>1, <2>4 DEF IssueRecv, At
    <3>3. pendingIO' = [pendingIO EXCEPT ![c] = @ - 1]
      BY <1>25, <2>1, <2>4 DEF IssueRecv, At
    <3> HIDE DEF Holders, Counts
    <3>4. QED BY <2>2, <3>1, <3>2, <3>3, HolderRemoved
  <2>5. QED BY <2>3, <2>4
<1>26. ASSUME NEW w \in Workers, ReportConnected(w)
    PROVE  Kept
  BY <1>26 DEF ReportConnected, At, Tell
<1>27. ASSUME NEW w \in Workers, DropClient(w)
    PROVE  Kept
  BY <1>27 DEF DropClient, At
<1>28. ASSUME NEW w \in Workers, RemoveDropped(w)
    PROVE  IOCounted'
  <2>1. PICK c \in Clients : c = cur[w] /\ mem[c] # "unused"
    BY <1>28 DEF RemoveDropped
  <2>2. RefHolders(c) = {}
    BY <1>28, <2>1 DEF RemoveDropped, NamedInv, RefInv, RefNamed, RefHolders, Named
  <2>3. refCount[c] = 0
    BY <2>1, <2>2, FS_EmptySet DEF RefInv, RefCounted
  <2>4. mem'[c] = "freed"
    BY <1>28, <2>1, <2>3 DEF RemoveDropped, RemoveFromMap
  <2>5. \A d \in Clients : Counts(d)' => Counts(d)
    BY <1>28, <2>1, <2>4 DEF RemoveDropped, RemoveFromMap
  <2>6. UNCHANGED pendingIO /\ \A d \in Clients : Holders(d)' = Holders(d)
    BY <1>28 DEF RemoveDropped
  <2> HIDE DEF Holders, Counts
  <2>8. QED BY <2>5, <2>6, HoldersKept
<1>29. ASSUME NEW w \in Workers, DecrementPending(w)
    PROVE  Kept
  BY <1>29 DEF DecrementPending
<1>30. ASSUME NEW t \in Workers \cup {Starter}, AllocTcpClient(t)
    PROVE  Kept
  BY <1>30 DEF AllocTcpClient
<1>31. ASSUME NEW t \in Workers \cup {Starter}, CannotPostAccept(t)
    PROVE  Kept
  BY <1>31 DEF CannotPostAccept, AfterAccept
<1>32. ASSUME NEW t \in Workers \cup {Starter}, IncrementPending(t)
    PROVE  Kept
  BY <1>32 DEF IncrementPending, At
<1>33. ASSUME NEW t \in Workers \cup {Starter}, AcceptExSucceeds(t)
    PROVE  Kept
  BY <1>33 DEF AcceptExSucceeds, At, AfterAccept
<1>34. ASSUME NEW t \in Workers \cup {Starter}, AcceptExFails(t)
    PROVE  Kept
  BY <1>34 DEF AcceptExFails, At, AfterAccept, RemoveFromMap
<1>35. ASSUME NEW t \in Workers \cup {Starter}, AcceptorFaults(t)
    PROVE  Kept
  BY <1>35 DEF AcceptorFaults
<1>36. ASSUME StartFails
    PROVE  Kept
  BY <1>36 DEF StartFails
<1>37. Kept => IOCounted'
  <2> HIDE DEF Holders, Counts
  <2>1. QED BY HoldersKept
<1>38. QED
    BY Next, <1>37,
       <1>1, <1>2, <1>3, <1>4, <1>5, <1>6, <1>7, <1>8, <1>9, <1>10, <1>11, <1>12,
          <1>13, <1>14, <1>15, <1>16, <1>17, <1>18, <1>19, <1>20, <1>21, <1>22, <1>23, <1>24,
          <1>25, <1>26, <1>27, <1>28, <1>29, <1>30, <1>31, <1>32, <1>33, <1>34, <1>35, <1>36
       DEF Next, ClientNext, AcceptorNext, Kernel, TakeCompletion, CheckReleaseStep, ConnectionStep,
              AppStep, Assist, AcceptConnection, PostAccept

\* Every step keeps the count, and the invariant of the references, as they are.
LEMMA CountIInvStep == ~SpecialPostFails /\ CountIInv /\ [Next]_vars => CountIInv'
<1>1. CASE Next
  BY <1>1, CountStep, RefIInvStep DEF CountIInv
<1>2. ASSUME CountIInv, UNCHANGED vars
      PROVE  CountIInv'
  <2>1. RefIInv'
    BY <1>2, RefIInvStep DEF CountIInv
  <2>2. UNCHANGED pendingIO /\ \A d \in Clients : Holders(d)' = Holders(d)
    BY <1>2 DEF vars, ctxVars, connVars, Holders, OpHolds, ThreadHolds, ClientOf, TypeOf
  <2>3. \A d \in Clients : Counts(d)' => Counts(d)
    BY <1>2 DEF vars, poolVars, Counts, Dropped
  <2>4. QED BY <1>2, <2>1, <2>2, <2>3, HoldersKept DEF CountIInv
<1>3. QED BY <1>1, <1>2

\* Nothing is counted before the first accept.
LEMMA CountIInvInit == Init => CountIInv
<1> SUFFICES ASSUME Init PROVE CountIInv
  OBVIOUS
<1>1. \A c \in Clients : Holders(c) = {}
  BY DEF Init, Holders, OpHolds, ThreadHolds, HoldingPCs, Ctx, Threads
<1>2. IOCounted
  BY <1>1, FS_EmptySet DEF Init, IOCounted
<1>3. QED BY <1>2, RefIInvInit DEF CountIInv

\* mPendingIO is, for every client in the table that no acceptor is dropping, the
\* number of its operations in flight plus the threads that still owe it a
\* CheckRelease.
THEOREM PendingIOExact ==
    ASSUME ~SpecialPostFails
    PROVE  Spec => []CountExact
<1>1. CountIInv /\ [Next]_vars => CountIInv'
  BY CountIInvStep
<1>2. CountIInv => CountExact
  BY DEF CountIInv, IOCounted, Counts, CountExact
<1>3. QED BY <1>1, <1>2, CountIInvInit, PTL DEF Spec

-----------------------------------------------------------------------------
(* mPendingAcceptCount, whatever fails. *)

\* Both sets of AcceptEx holders are parts of finite ones.
LEMMA AcceptsFinite ==
    /\ IsFiniteSet(AcceptsOutstanding) /\ IsFiniteSet(AcceptWorkers) /\ IsFiniteSet(AcceptExs)
    /\ Cardinality(AcceptsOutstanding) \in Nat
    /\ Cardinality(AcceptWorkers) \in Nat /\ Cardinality(AcceptExs) \in Nat
<1>1. AcceptsOutstanding \subseteq Ctx /\ AcceptWorkers \subseteq Threads /\ AcceptExs \subseteq Threads
  BY DEF AcceptsOutstanding, AcceptWorkers, AcceptExs, Ctx, Threads
<1>2. QED BY <1>1, FiniteSystem, FS_Subset, FS_CardinalityType

\* What is there of the acceptor is a number, before and after a step.
LEMMA AcceptsCounted == Accepts \in Int /\ Accepts' \in Int
<1>1. /\ AcceptsOutstanding' \subseteq Ctx /\ AcceptWorkers' \subseteq Threads
      /\ AcceptExs' \subseteq Threads
  BY DEF AcceptsOutstanding, AcceptWorkers, AcceptExs, Ctx, Threads
<1>2. /\ Cardinality(AcceptsOutstanding') \in Nat
      /\ Cardinality(AcceptWorkers') \in Nat /\ Cardinality(AcceptExs') \in Nat
  BY <1>1, FiniteSystem, FS_Subset, FS_CardinalityType
<1>3. QED BY <1>2, AcceptsFinite DEF Accepts

\* A step leaves the count as exact as it was, or too high if it loses a thread.
Balanced == pendingAccept' - Accepts' = pendingAccept - Accepts
Slack ==
    /\ pendingAccept' - Accepts' >= pendingAccept - Accepts
    /\ CallbackThrows \/ \E t \in Threads : pc'[t] = "fault"

SameAccepts ==
    UNCHANGED <<AcceptsOutstanding, AcceptWorkers, AcceptExs, pendingAccept>>
FewerAccepts ==
    /\ AcceptsOutstanding' \subseteq AcceptsOutstanding
    /\ AcceptWorkers' \subseteq AcceptWorkers
    /\ AcceptExs' \subseteq AcceptExs
    /\ UNCHANGED pendingAccept
    /\ CallbackThrows \/ \E t \in Threads : pc'[t] = "fault"

\* A step that moves none of them and leaves the count alone.
LEMMA SameBalance == SameAccepts => Balanced
BY DEF SameAccepts, Balanced, Accepts

\* A step that only takes accepts away cannot make the count too low.
LEMMA FewerSlack == ASSUME pendingAccept \in Int, FewerAccepts PROVE Slack
<1>1. /\ Cardinality(AcceptsOutstanding') <= Cardinality(AcceptsOutstanding)
      /\ Cardinality(AcceptWorkers') <= Cardinality(AcceptWorkers)
      /\ Cardinality(AcceptExs') <= Cardinality(AcceptExs)
  BY AcceptsFinite, FS_Subset DEF FewerAccepts
<1>2. /\ Cardinality(AcceptsOutstanding') \in Nat
      /\ Cardinality(AcceptWorkers') \in Nat /\ Cardinality(AcceptExs') \in Nat
  BY AcceptsFinite, FS_Subset, FS_CardinalityType DEF FewerAccepts
<1>3. QED BY <1>1, <1>2, AcceptsFinite DEF FewerAccepts, Slack, Accepts

\* Each step of the acceptor moves one accept from one place to the next, or counts it.
LEMMA AcceptStep ==
    ASSUME RefIInv, Next
    PROVE  Balanced \/ Slack
<1> USE ThreadsDisjoint, CtxDisjoint, NoClientFresh
        DEF RefIInv, TypeOK, ContextTypeOK, ThreadTypeOK, AcceptorTypeOK, Goto, Threads, Ctx,
            poolVars, connVars, ctxVars, acceptorVars, ConnInv, AllocInv, PumpIO, PumpOp, WorkPCs,
            TouchingPCs, EarlyPCs, PumpPCs, AcceptsOutstanding, AcceptWorkers, AcceptExs,
            AcceptPCs
<1>1. ASSUME NEW x \in Ctx, KernelCompletes(x), UNCHANGED acceptorVars
    PROVE  SameAccepts
  BY <1>1 DEF KernelCompletes, SameAccepts
<1>2. ASSUME NEW x \in Ctx, KernelAborts(x), UNCHANGED acceptorVars
    PROVE  SameAccepts
  BY <1>2 DEF KernelAborts, SameAccepts
<1>3. ASSUME NEW c \in Clients, GoesStale(c), UNCHANGED acceptorVars
    PROVE  SameAccepts
  BY <1>3 DEF GoesStale, SameAccepts
<1>4. ASSUME NEW w \in Workers, NEW c \in Clients, RecvCompleted(w, c), UNCHANGED acceptorVars
    PROVE  SameAccepts
  BY <1>4 DEF RecvCompleted, Dequeue, ClientOf, SameAccepts
<1>5. ASSUME NEW w \in Workers, NEW x \in IOContexts,
           SendCompleted(w, x), UNCHANGED acceptorVars
    PROVE  SameAccepts
  BY <1>5 DEF SendCompleted, Dequeue, ReleaseContext, ClientOf, SameAccepts
<1>6. ASSUME NEW w \in Workers, NEW x \in IOContexts,
           SpecialCompleted(w, x), UNCHANGED acceptorVars
    PROVE  SameAccepts
  BY <1>6 DEF SpecialCompleted, Dequeue, ReleaseContext, ClientOf, SameAccepts
<1>7. ASSUME NEW w \in Workers, NEW x \in Ctx, DequeueFaults(w, x), UNCHANGED acceptorVars
    PROVE  FewerAccepts
  BY <1>7 DEF DequeueFaults, ClientOf, FewerAccepts
<1>8. ASSUME NEW w \in Workers, OnRecvCompletion(w), UNCHANGED acceptorVars
    PROVE  SameAccepts
  BY <1>8 DEF OnRecvCompletion, At, Tell, SameAccepts
<1>9. ASSUME NEW w \in Workers, PostRecv(w, "postRecv", "issueRecv"), UNCHANGED acceptorVars
    PROVE  SameAccepts
  BY <1>9 DEF PostRecv, At, SameAccepts
<1>10. ASSUME NEW w \in Workers,
           IssueRecv(w, "issueRecv", "release", "disconnect"), UNCHANGED acceptorVars
    PROVE  SameAccepts
  BY <1>10 DEF IssueRecv, At, SameAccepts
<1>11. ASSUME NEW w \in Workers, SetDisconnect(w), UNCHANGED acceptorVars
    PROVE  SameAccepts
  BY <1>11 DEF SetDisconnect, At, SameAccepts
<1>12. ASSUME NEW t \in Workers \cup AppThreads, DecreaseIOCount(t), UNCHANGED acceptorVars
    PROVE  SameAccepts
  BY <1>12 DEF DecreaseIOCount, At, Return, SameAccepts
<1>13. ASSUME NEW t \in Workers \cup AppThreads, MarkClosed(t), UNCHANGED acceptorVars
    PROVE  SameAccepts
  BY <1>13 DEF MarkClosed, At, SameAccepts
<1>14. ASSUME NEW t \in Workers \cup AppThreads, ReportClosed(t), UNCHANGED acceptorVars
    PROVE  SameAccepts
  BY <1>14 DEF ReportClosed, At, Return, Tell, SameAccepts
<1>15. ASSUME NEW t \in Workers \cup AppThreads, RemoveClient(t), UNCHANGED acceptorVars
    PROVE  SameAccepts
  BY <1>15 DEF RemoveClient, At, Return, RemoveFromMap, SameAccepts
<1>16. ASSUME NEW a \in AppThreads, NEW c \in Clients, FindClient(a, c), UNCHANGED acceptorVars
    PROVE  SameAccepts
  BY <1>16 DEF FindClient, SameAccepts
<1>17. ASSUME NEW a \in AppThreads, PostSend(a), UNCHANGED acceptorVars
    PROVE  SameAccepts
  BY <1>17 DEF PostSend, At, UseContext, FreeContexts, SameAccepts
<1>18. ASSUME NEW a \in AppThreads, CloseSocket(a), UNCHANGED acceptorVars
    PROVE  SameAccepts
  BY <1>18 DEF CloseSocket, At, PostSpecial, UseContext, FreeContexts, SameAccepts
<1>19. ASSUME NEW a \in AppThreads, UnRef(a), UNCHANGED acceptorVars
    PROVE  SameAccepts
  BY <1>19 DEF UnRef, At, SameAccepts
<1>20. ASSUME NEW t \in Threads, Faults(t), UNCHANGED acceptorVars
    PROVE  FewerAccepts
  BY <1>20 DEF Faults, FewerAccepts
<1>21. ASSUME NEW c \in Clients, CheckStatus(c), UNCHANGED acceptorVars
    PROVE  SameAccepts
  BY <1>21
     DEF CheckStatus, PostSpecial, UseContext, FreeContexts, Unused, SameAccepts
<1>22. ASSUME NEW c \in Clients, CheckStatusFails(c), UNCHANGED acceptorVars
    PROVE  SameAccepts
  BY <1>22 DEF CheckStatusFails, PostSpecialFails, SameAccepts
<1>23. ASSUME NEW w \in Workers, NEW c \in Clients, AcceptCompleted(w, c)
    PROVE  Balanced
  <2>1. c \in AcceptsOutstanding /\ AcceptsOutstanding' = AcceptsOutstanding \ {c}
    BY <1>23 DEF AcceptCompleted
  <2>2. w \notin AcceptWorkers /\ AcceptWorkers' = AcceptWorkers \cup {w}
    BY <1>23 DEF AcceptCompleted
  <2>3. UNCHANGED <<AcceptExs, pendingAccept>>
    BY <1>23 DEF AcceptCompleted, acceptorVars
  <2> HIDE DEF AcceptsOutstanding, AcceptWorkers, AcceptExs
  <2>4. Cardinality(AcceptsOutstanding') = Cardinality(AcceptsOutstanding) - 1
    BY <2>1, AcceptsFinite, FS_RemoveElement
  <2>5. Cardinality(AcceptWorkers') = Cardinality(AcceptWorkers) + 1
    BY <2>2, AcceptsFinite, FS_AddElement
  <2>6. QED BY <2>3, <2>4, <2>5, AcceptsFinite DEF Balanced, Accepts
<1>24. ASSUME NEW w \in Workers,
           PostRecv(w, "acceptPostRecv", "acceptIssueRecv"), UNCHANGED acceptorVars
    PROVE  SameAccepts
  <2>1. PICK c \in Clients : c = cur[w] /\ io[c] = "none"
    BY <1>24 DEF PostRecv, At
  <2>2. UNCHANGED AcceptsOutstanding
    <3>1. recvOp' = [recvOp EXCEPT ![c] = "recv"] /\ io' = [io EXCEPT ![c] = "posting"]
      BY <1>24, <2>1 DEF PostRecv
    <3>2. c \notin AcceptsOutstanding /\ c \notin AcceptsOutstanding'
      BY <2>1, <3>1 DEF ClientTypeOK
    <3>3. QED BY <3>1, <3>2
  <2>3. UNCHANGED <<AcceptWorkers, AcceptExs>>
    BY <1>24 DEF PostRecv, At
  <2>4. QED BY <1>24, <2>2, <2>3 DEF SameAccepts
<1>25. ASSUME NEW w \in Workers,
           IssueRecv(w, "acceptIssueRecv", "accepted", "acceptFailed"), UNCHANGED acceptorVars
    PROVE  SameAccepts
  BY <1>25 DEF IssueRecv, At, SameAccepts
<1>26. ASSUME NEW w \in Workers, ReportConnected(w)
    PROVE  Balanced \/ Slack
  <2>1. CASE pc'[w] = "postAccept"
    <3>1. SameAccepts
      BY <1>26, <2>1 DEF ReportConnected, At, acceptorVars, SameAccepts
    <3>2. QED BY <3>1, SameBalance
  <2>2. CASE pc'[w] # "postAccept"
    <3>1. FewerAccepts
      BY <1>26, <2>2 DEF ReportConnected, At, acceptorVars, FewerAccepts
    <3>2. QED BY <3>1, FewerSlack
  <2>3. QED BY <2>1, <2>2
<1>27. ASSUME NEW w \in Workers, DropClient(w)
    PROVE  SameAccepts
  BY <1>27 DEF DropClient, At, SameAccepts
<1>28. ASSUME NEW w \in Workers, RemoveDropped(w)
    PROVE  SameAccepts
  BY <1>28 DEF RemoveDropped, RemoveFromMap, SameAccepts
<1>29. ASSUME NEW w \in Workers, DecrementPending(w)
    PROVE  Balanced
  <2>1. w \in AcceptWorkers /\ AcceptWorkers' = AcceptWorkers \ {w}
    BY <1>29 DEF DecrementPending
  <2>2. UNCHANGED <<AcceptsOutstanding, AcceptExs>> /\ pendingAccept' = pendingAccept - 1
    BY <1>29 DEF DecrementPending
  <2> HIDE DEF AcceptsOutstanding, AcceptWorkers, AcceptExs
  <2>3. Cardinality(AcceptWorkers') = Cardinality(AcceptWorkers) - 1
    BY <2>1, AcceptsFinite, FS_RemoveElement
  <2>4. QED BY <2>2, <2>3, AcceptsFinite DEF Balanced, Accepts
<1>30. ASSUME NEW t \in Workers \cup {Starter}, AllocTcpClient(t)
    PROVE  SameAccepts
  BY <1>30 DEF AllocTcpClient, SameAccepts
<1>31. ASSUME NEW t \in Workers \cup {Starter}, CannotPostAccept(t)
    PROVE  SameAccepts
  BY <1>31 DEF CannotPostAccept, AfterAccept, SameAccepts
<1>32. ASSUME NEW t \in Workers \cup {Starter}, IncrementPending(t)
    PROVE  Balanced
  <2>1. t \notin AcceptExs /\ AcceptExs' = AcceptExs \cup {t}
    BY <1>32 DEF IncrementPending, At
  <2>2. UNCHANGED <<AcceptsOutstanding, AcceptWorkers>> /\ pendingAccept' = pendingAccept + 1
    BY <1>32 DEF IncrementPending, At
  <2> HIDE DEF AcceptsOutstanding, AcceptWorkers, AcceptExs
  <2>3. Cardinality(AcceptExs') = Cardinality(AcceptExs) + 1
    BY <2>1, AcceptsFinite, FS_AddElement
  <2>4. Accepts' = Accepts + 1
    BY <2>2, <2>3, AcceptsFinite DEF Accepts
  <2>5. QED BY <2>2, <2>4, AcceptsCounted DEF Balanced
<1>33. ASSUME NEW t \in Workers \cup {Starter}, AcceptExSucceeds(t)
    PROVE  Balanced
  <2>1. PICK c \in Clients : c = cur[t]
    BY <1>33 DEF AcceptExSucceeds, At
  <2>2. c \notin AcceptsOutstanding /\ AcceptsOutstanding' = AcceptsOutstanding \cup {c}
    BY <1>33, <2>1 DEF AcceptExSucceeds, At
  <2>3. t \in AcceptExs /\ AcceptExs' = AcceptExs \ {t}
    BY <1>33 DEF AcceptExSucceeds, At, AfterAccept
  <2>4. UNCHANGED <<AcceptWorkers, pendingAccept>>
    BY <1>33 DEF AcceptExSucceeds, At, AfterAccept
  <2> HIDE DEF AcceptsOutstanding, AcceptWorkers, AcceptExs
  <2>5. Cardinality(AcceptsOutstanding') = Cardinality(AcceptsOutstanding) + 1
    BY <2>2, AcceptsFinite, FS_AddElement
  <2>6. Cardinality(AcceptExs') = Cardinality(AcceptExs) - 1
    BY <2>3, AcceptsFinite, FS_RemoveElement
  <2>7. QED BY <2>4, <2>5, <2>6, AcceptsFinite DEF Balanced, Accepts
<1>34. ASSUME NEW t \in Workers \cup {Starter}, AcceptExFails(t)
    PROVE  Balanced
  <2>1. t \in AcceptExs /\ AcceptExs' = AcceptExs \ {t}
    BY <1>34 DEF AcceptExFails, At, AfterAccept
  <2>2. AcceptsOutstanding' = AcceptsOutstanding /\ AcceptWorkers' = AcceptWorkers
    BY <1>34 DEF AcceptExFails, At, AfterAccept
  <2>3. pendingAccept' = pendingAccept - 1
    BY <1>34 DEF AcceptExFails, At, AfterAccept
  <2> HIDE DEF AcceptsOutstanding, AcceptWorkers, AcceptExs
  <2>4. Cardinality(AcceptExs') = Cardinality(AcceptExs) - 1
    BY <2>1, AcceptsFinite, FS_RemoveElement
  <2>5. /\ Cardinality(AcceptsOutstanding') = Cardinality(AcceptsOutstanding)
        /\ Cardinality(AcceptWorkers') = Cardinality(AcceptWorkers)
    BY <2>2
  <2>6. QED BY <2>3, <2>4, <2>5, AcceptsFinite, SMTT(30) DEF Balanced, Accepts
<1>35. ASSUME NEW t \in Workers \cup {Starter}, AcceptorFaults(t)
    PROVE  FewerAccepts
  BY <1>35 DEF AcceptorFaults, FewerAccepts
<1>36. ASSUME StartFails
    PROVE  SameAccepts
  BY <1>36 DEF StartFails, SameAccepts
<1>37. (SameAccepts => Balanced) /\ (FewerAccepts => Slack)
  BY SameBalance, FewerSlack
<1> HIDE DEF Balanced, Slack, SameAccepts, FewerAccepts
<1>38. QED
    BY Next, <1>37, <1>1, <1>2, <1>3, <1>4, <1>5, <1>6, <1>7, <1>8, <1>9, <1>10, <1>11, <1>12, <1>13,
       <1>14, <1>15, <1>16, <1>17, <1>18, <1>19, <1>20, <1>21, <1>22, <1>23, <1>24, <1>25, <1>26,
       <1>27, <1>28, <1>29, <1>30, <1>31, <1>32, <1>33, <1>34, <1>35, <1>36
       DEF Next, ClientNext, AcceptorNext, Kernel, TakeCompletion, CheckReleaseStep, ConnectionStep,
              AppStep, Assist, AcceptConnection, PostAccept

\* The last DecrementPending finds nothing else; nothing is posted after it.
LEMMA AcceptorIdleStep ==
    ASSUME RefIInv, AcceptorInv, Next
    PROVE  (pc[Starter] # "gaveUp" /\ acceptor = "deleted" => AcceptorIdle)'
<1> USE ThreadsDisjoint, CtxDisjoint, NoClientFresh
        DEF RefIInv, TypeOK, ContextTypeOK, ThreadTypeOK, AcceptorTypeOK, Goto, Threads, Ctx,
            poolVars, connVars, ctxVars, acceptorVars, ConnInv, AllocInv, PumpIO, PumpOp, WorkPCs,
            TouchingPCs, EarlyPCs, PumpPCs, AcceptsOutstanding, AcceptWorkers, AcceptExs,
            AcceptPCs, AcceptorInv, AcceptorIdle
<1>1. ASSUME NEW x \in Ctx, KernelCompletes(x), UNCHANGED acceptorVars
    PROVE  (pc[Starter] # "gaveUp" /\ acceptor = "deleted" => AcceptorIdle)'
  BY <1>1 DEF KernelCompletes
<1>2. ASSUME NEW x \in Ctx, KernelAborts(x), UNCHANGED acceptorVars
    PROVE  (pc[Starter] # "gaveUp" /\ acceptor = "deleted" => AcceptorIdle)'
  BY <1>2 DEF KernelAborts
<1>3. ASSUME NEW c \in Clients, GoesStale(c), UNCHANGED acceptorVars
    PROVE  (pc[Starter] # "gaveUp" /\ acceptor = "deleted" => AcceptorIdle)'
  BY <1>3 DEF GoesStale
<1>4. ASSUME NEW w \in Workers, NEW c \in Clients, RecvCompleted(w, c), UNCHANGED acceptorVars
    PROVE  (pc[Starter] # "gaveUp" /\ acceptor = "deleted" => AcceptorIdle)'
  BY <1>4 DEF RecvCompleted, Dequeue, ClientOf
<1>5. ASSUME NEW w \in Workers, NEW x \in IOContexts,
           SendCompleted(w, x), UNCHANGED acceptorVars
    PROVE  (pc[Starter] # "gaveUp" /\ acceptor = "deleted" => AcceptorIdle)'
  BY <1>5 DEF SendCompleted, Dequeue, ReleaseContext, ClientOf
<1>6. ASSUME NEW w \in Workers, NEW x \in IOContexts,
           SpecialCompleted(w, x), UNCHANGED acceptorVars
    PROVE  (pc[Starter] # "gaveUp" /\ acceptor = "deleted" => AcceptorIdle)'
  BY <1>6 DEF SpecialCompleted, Dequeue, ReleaseContext, ClientOf
<1>7. ASSUME NEW w \in Workers, NEW x \in Ctx, DequeueFaults(w, x), UNCHANGED acceptorVars
    PROVE  (pc[Starter] # "gaveUp" /\ acceptor = "deleted" => AcceptorIdle)'
  BY <1>7 DEF DequeueFaults, ClientOf
<1>8. ASSUME NEW w \in Workers, OnRecvCompletion(w), UNCHANGED acceptorVars
    PROVE  (pc[Starter] # "gaveUp" /\ acceptor = "deleted" => AcceptorIdle)'
  BY <1>8 DEF OnRecvCompletion, At, Tell
<1>9. ASSUME NEW w \in Workers, PostRecv(w, "postRecv", "issueRecv"), UNCHANGED acceptorVars
    PROVE  (pc[Starter] # "gaveUp" /\ acceptor = "deleted" => AcceptorIdle)'
  BY <1>9 DEF PostRecv, At
<1>10. ASSUME NEW w \in Workers,
           IssueRecv(w, "issueRecv", "release", "disconnect"), UNCHANGED acceptorVars
    PROVE  (pc[Starter] # "gaveUp" /\ acceptor = "deleted" => AcceptorIdle)'
  BY <1>10 DEF IssueRecv, At
<1>11. ASSUME NEW w \in Workers, SetDisconnect(w), UNCHANGED acceptorVars
    PROVE  (pc[Starter] # "gaveUp" /\ acceptor = "deleted" => AcceptorIdle)'
  BY <1>11 DEF SetDisconnect, At
<1>12. ASSUME NEW t \in Workers \cup AppThreads, DecreaseIOCount(t), UNCHANGED acceptorVars
    PROVE  (pc[Starter] # "gaveUp" /\ acceptor = "deleted" => AcceptorIdle)'
  BY <1>12 DEF DecreaseIOCount, At, Return
<1>13. ASSUME NEW t \in Workers \cup AppThreads, MarkClosed(t), UNCHANGED acceptorVars
    PROVE  (pc[Starter] # "gaveUp" /\ acceptor = "deleted" => AcceptorIdle)'
  BY <1>13 DEF MarkClosed, At
<1>14. ASSUME NEW t \in Workers \cup AppThreads, ReportClosed(t), UNCHANGED acceptorVars
    PROVE  (pc[Starter] # "gaveUp" /\ acceptor = "deleted" => AcceptorIdle)'
  BY <1>14 DEF ReportClosed, At, Return, Tell
<1>15. ASSUME NEW t \in Workers \cup AppThreads, RemoveClient(t), UNCHANGED acceptorVars
    PROVE  (pc[Starter] # "gaveUp" /\ acceptor = "deleted" => AcceptorIdle)'
  BY <1>15 DEF RemoveClient, At, Return, RemoveFromMap
<1>16. ASSUME NEW a \in AppThreads, NEW c \in Clients, FindClient(a, c), UNCHANGED acceptorVars
    PROVE  (pc[Starter] # "gaveUp" /\ acceptor = "deleted" => AcceptorIdle)'
  BY <1>16 DEF FindClient
<1>17. ASSUME NEW a \in AppThreads, PostSend(a), UNCHANGED acceptorVars
    PROVE  (pc[Starter] # "gaveUp" /\ acceptor = "deleted" => AcceptorIdle)'
  BY <1>17 DEF PostSend, At, UseContext, FreeContexts
<1>18. ASSUME NEW a \in AppThreads, CloseSocket(a), UNCHANGED acceptorVars
    PROVE  (pc[Starter] # "gaveUp" /\ acceptor = "deleted" => AcceptorIdle)'
  BY <1>18 DEF CloseSocket, At, PostSpecial, UseContext, FreeContexts
<1>19. ASSUME NEW a \in AppThreads, UnRef(a), UNCHANGED acceptorVars
    PROVE  (pc[Starter] # "gaveUp" /\ acceptor = "deleted" => AcceptorIdle)'
  BY <1>19 DEF UnRef, At
<1>20. ASSUME NEW t \in Threads, Faults(t), UNCHANGED acceptorVars
    PROVE  (pc[Starter] # "gaveUp" /\ acceptor = "deleted" => AcceptorIdle)'
  BY <1>20 DEF Faults
<1>21. ASSUME NEW c \in Clients, CheckStatus(c), UNCHANGED acceptorVars
    PROVE  (pc[Starter] # "gaveUp" /\ acceptor = "deleted" => AcceptorIdle)'
  BY <1>21 DEF CheckStatus, PostSpecial, UseContext, FreeContexts, Unused
<1>22. ASSUME NEW c \in Clients, CheckStatusFails(c), UNCHANGED acceptorVars
    PROVE  (pc[Starter] # "gaveUp" /\ acceptor = "deleted" => AcceptorIdle)'
  BY <1>22 DEF CheckStatusFails, PostSpecialFails
<1>23. ASSUME NEW w \in Workers, NEW c \in Clients, AcceptCompleted(w, c)
    PROVE  (pc[Starter] # "gaveUp" /\ acceptor = "deleted" => AcceptorIdle)'
  BY <1>23 DEF AcceptCompleted
<1>24. ASSUME NEW w \in Workers,
           PostRecv(w, "acceptPostRecv", "acceptIssueRecv"), UNCHANGED acceptorVars
    PROVE  (pc[Starter] # "gaveUp" /\ acceptor = "deleted" => AcceptorIdle)'
  BY <1>24 DEF PostRecv, At
<1>25. ASSUME NEW w \in Workers,
           IssueRecv(w, "acceptIssueRecv", "accepted", "acceptFailed"), UNCHANGED acceptorVars
    PROVE  (pc[Starter] # "gaveUp" /\ acceptor = "deleted" => AcceptorIdle)'
  BY <1>25 DEF IssueRecv, At
<1>26. ASSUME NEW w \in Workers, ReportConnected(w)
    PROVE  (pc[Starter] # "gaveUp" /\ acceptor = "deleted" => AcceptorIdle)'
  BY <1>26 DEF ReportConnected, At, Tell
<1>27. ASSUME NEW w \in Workers, DropClient(w)
    PROVE  (pc[Starter] # "gaveUp" /\ acceptor = "deleted" => AcceptorIdle)'
  BY <1>27 DEF DropClient, At
<1>28. ASSUME NEW w \in Workers, RemoveDropped(w)
    PROVE  (pc[Starter] # "gaveUp" /\ acceptor = "deleted" => AcceptorIdle)'
  BY <1>28 DEF RemoveDropped, RemoveFromMap
<1>29. ASSUME NEW w \in Workers, DecrementPending(w)
    PROVE  (pc[Starter] # "gaveUp" /\ acceptor = "deleted" => AcceptorIdle)'
  <2>1. CASE UNCHANGED acceptor
    BY <1>29, <2>1 DEF DecrementPending, AcceptorInv, AcceptorIdle
  <2>2. CASE acceptor' # acceptor
    <3>1. w \in AcceptWorkers /\ Accepts <= 1
      BY <1>29, <2>2 DEF DecrementPending, AcceptorInv, AcceptCounted
    <3>2. Cardinality(AcceptWorkers) # 0
      <4> HIDE DEF AcceptWorkers
      <4>1. QED BY <3>1, AcceptsFinite, FS_EmptySet
    <3>3. Cardinality(AcceptWorkers) = 1 /\ Cardinality(AcceptsOutstanding) = 0
      BY <3>1, <3>2, AcceptsFinite DEF Accepts
    <3>4. AcceptsOutstanding = {} /\ \E v : AcceptWorkers = {v}
      <4> HIDE DEF AcceptWorkers, AcceptsOutstanding
      <4>1. QED BY <3>3, AcceptsFinite, FS_EmptySet, FS_Singleton
    <3>5. QED BY <1>29, <3>1, <3>4 DEF DecrementPending, AcceptorIdle
  <2>3. QED BY <2>1, <2>2
<1>30. ASSUME NEW t \in Workers \cup {Starter}, AllocTcpClient(t)
    PROVE  (pc[Starter] # "gaveUp" /\ acceptor = "deleted" => AcceptorIdle)'
  BY <1>30 DEF AllocTcpClient
<1>31. ASSUME NEW t \in Workers \cup {Starter}, CannotPostAccept(t)
    PROVE  (pc[Starter] # "gaveUp" /\ acceptor = "deleted" => AcceptorIdle)'
  BY <1>31 DEF CannotPostAccept, AfterAccept
<1>32. ASSUME NEW t \in Workers \cup {Starter}, IncrementPending(t)
    PROVE  (pc[Starter] # "gaveUp" /\ acceptor = "deleted" => AcceptorIdle)'
  BY <1>32 DEF IncrementPending, At
<1>33. ASSUME NEW t \in Workers \cup {Starter}, AcceptExSucceeds(t)
    PROVE  (pc[Starter] # "gaveUp" /\ acceptor = "deleted" => AcceptorIdle)'
  BY <1>33 DEF AcceptExSucceeds, At, AfterAccept
<1>34. ASSUME NEW t \in Workers \cup {Starter}, AcceptExFails(t)
    PROVE  (pc[Starter] # "gaveUp" /\ acceptor = "deleted" => AcceptorIdle)'
  BY <1>34 DEF AcceptExFails, At, AfterAccept, RemoveFromMap
<1>35. ASSUME NEW t \in Workers \cup {Starter}, AcceptorFaults(t)
    PROVE  (pc[Starter] # "gaveUp" /\ acceptor = "deleted" => AcceptorIdle)'
  BY <1>35 DEF AcceptorFaults
<1>36. ASSUME StartFails
    PROVE  (pc[Starter] # "gaveUp" /\ acceptor = "deleted" => AcceptorIdle)'
  BY <1>36 DEF StartFails
<1>37. QED
    BY Next, <1>1, <1>2, <1>3, <1>4, <1>5, <1>6, <1>7, <1>8, <1>9, <1>10, <1>11, <1>12, <1>13,
       <1>14, <1>15, <1>16, <1>17, <1>18, <1>19, <1>20, <1>21, <1>22, <1>23, <1>24, <1>25, <1>26,
       <1>27, <1>28, <1>29, <1>30, <1>31, <1>32, <1>33, <1>34, <1>35, <1>36
       DEF Next, ClientNext, AcceptorNext, Kernel, TakeCompletion, CheckReleaseStep, ConnectionStep,
              AppStep, Assist, AcceptConnection, PostAccept

\* A thread that was lost stays lost.
LEMMA FaultStays ==
    ASSUME ThreadTypeOK, NEW u \in Threads, pc[u] = "fault", Next
    PROVE  pc'[u] = "fault"
<1> USE DEF ThreadTypeOK, Goto, Threads
<1>1. ASSUME NEW x \in Ctx, KernelCompletes(x), UNCHANGED acceptorVars
    PROVE  pc'[u] = "fault"
  BY <1>1 DEF KernelCompletes
<1>2. ASSUME NEW x \in Ctx, KernelAborts(x), UNCHANGED acceptorVars
    PROVE  pc'[u] = "fault"
  BY <1>2 DEF KernelAborts
<1>3. ASSUME NEW c \in Clients, GoesStale(c), UNCHANGED acceptorVars
    PROVE  pc'[u] = "fault"
  BY <1>3 DEF GoesStale
<1>4. ASSUME NEW w \in Workers, NEW c \in Clients, RecvCompleted(w, c), UNCHANGED acceptorVars
    PROVE  pc'[u] = "fault"
  BY <1>4 DEF RecvCompleted, Dequeue, ClientOf
<1>5. ASSUME NEW w \in Workers, NEW x \in IOContexts,
           SendCompleted(w, x), UNCHANGED acceptorVars
    PROVE  pc'[u] = "fault"
  BY <1>5 DEF SendCompleted, Dequeue, ReleaseContext, ClientOf
<1>6. ASSUME NEW w \in Workers, NEW x \in IOContexts,
           SpecialCompleted(w, x), UNCHANGED acceptorVars
    PROVE  pc'[u] = "fault"
  BY <1>6 DEF SpecialCompleted, Dequeue, ReleaseContext, ClientOf
<1>7. ASSUME NEW w \in Workers, NEW x \in Ctx, DequeueFaults(w, x), UNCHANGED acceptorVars
    PROVE  pc'[u] = "fault"
  BY <1>7 DEF DequeueFaults, ClientOf
<1>8. ASSUME NEW w \in Workers, OnRecvCompletion(w), UNCHANGED acceptorVars
    PROVE  pc'[u] = "fault"
  BY <1>8 DEF OnRecvCompletion, At, Tell
<1>9. ASSUME NEW w \in Workers, PostRecv(w, "postRecv", "issueRecv"), UNCHANGED acceptorVars
    PROVE  pc'[u] = "fault"
  BY <1>9 DEF PostRecv, At
<1>10. ASSUME NEW w \in Workers,
           IssueRecv(w, "issueRecv", "release", "disconnect"), UNCHANGED acceptorVars
    PROVE  pc'[u] = "fault"
  BY <1>10 DEF IssueRecv, At
<1>11. ASSUME NEW w \in Workers, SetDisconnect(w), UNCHANGED acceptorVars
    PROVE  pc'[u] = "fault"
  BY <1>11 DEF SetDisconnect, At
<1>12. ASSUME NEW t \in Workers \cup AppThreads, DecreaseIOCount(t), UNCHANGED acceptorVars
    PROVE  pc'[u] = "fault"
  BY <1>12 DEF DecreaseIOCount, At, Return
<1>13. ASSUME NEW t \in Workers \cup AppThreads, MarkClosed(t), UNCHANGED acceptorVars
    PROVE  pc'[u] = "fault"
  BY <1>13 DEF MarkClosed, At
<1>14. ASSUME NEW t \in Workers \cup AppThreads, ReportClosed(t), UNCHANGED acceptorVars
    PROVE  pc'[u] = "fault"
  BY <1>14 DEF ReportClosed, At, Return, Tell
<1>15. ASSUME NEW t \in Workers \cup AppThreads, RemoveClient(t), UNCHANGED acceptorVars
    PROVE  pc'[u] = "fault"
  BY <1>15 DEF RemoveClient, At, Return, RemoveFromMap
<1>16. ASSUME NEW a \in AppThreads, NEW c \in Clients, FindClient(a, c), UNCHANGED acceptorVars
    PROVE  pc'[u] = "fault"
  BY <1>16 DEF FindClient
<1>17. ASSUME NEW a \in AppThreads, PostSend(a), UNCHANGED acceptorVars
    PROVE  pc'[u] = "fault"
  BY <1>17 DEF PostSend, At, UseContext, FreeContexts
<1>18. ASSUME NEW a \in AppThreads, CloseSocket(a), UNCHANGED acceptorVars
    PROVE  pc'[u] = "fault"
  BY <1>18 DEF CloseSocket, At, PostSpecial, UseContext, FreeContexts
<1>19. ASSUME NEW a \in AppThreads, UnRef(a), UNCHANGED acceptorVars
    PROVE  pc'[u] = "fault"
  BY <1>19 DEF UnRef, At
<1>20. ASSUME NEW t \in Threads, Faults(t), UNCHANGED acceptorVars
    PROVE  pc'[u] = "fault"
  BY <1>20 DEF Faults, TouchingPCs
<1>21. ASSUME NEW c \in Clients, CheckStatus(c), UNCHANGED acceptorVars
    PROVE  pc'[u] = "fault"
  BY <1>21 DEF CheckStatus, PostSpecial, UseContext, FreeContexts, Unused
<1>22. ASSUME NEW c \in Clients, CheckStatusFails(c), UNCHANGED acceptorVars
    PROVE  pc'[u] = "fault"
  BY <1>22 DEF CheckStatusFails, PostSpecialFails
<1>23. ASSUME NEW w \in Workers, NEW c \in Clients, AcceptCompleted(w, c)
    PROVE  pc'[u] = "fault"
  BY <1>23 DEF AcceptCompleted
<1>24. ASSUME NEW w \in Workers,
           PostRecv(w, "acceptPostRecv", "acceptIssueRecv"), UNCHANGED acceptorVars
    PROVE  pc'[u] = "fault"
  BY <1>24 DEF PostRecv, At
<1>25. ASSUME NEW w \in Workers,
           IssueRecv(w, "acceptIssueRecv", "accepted", "acceptFailed"), UNCHANGED acceptorVars
    PROVE  pc'[u] = "fault"
  BY <1>25 DEF IssueRecv, At
<1>26. ASSUME NEW w \in Workers, ReportConnected(w)
    PROVE  pc'[u] = "fault"
  BY <1>26 DEF ReportConnected, At, Tell
<1>27. ASSUME NEW w \in Workers, DropClient(w)
    PROVE  pc'[u] = "fault"
  BY <1>27 DEF DropClient, At
<1>28. ASSUME NEW w \in Workers, RemoveDropped(w)
    PROVE  pc'[u] = "fault"
  BY <1>28 DEF RemoveDropped, RemoveFromMap
<1>29. ASSUME NEW w \in Workers, DecrementPending(w)
    PROVE  pc'[u] = "fault"
  BY <1>29 DEF DecrementPending
<1>30. ASSUME NEW t \in Workers \cup {Starter}, AllocTcpClient(t)
    PROVE  pc'[u] = "fault"
  BY <1>30 DEF AllocTcpClient
<1>31. ASSUME NEW t \in Workers \cup {Starter}, CannotPostAccept(t)
    PROVE  pc'[u] = "fault"
  BY <1>31 DEF CannotPostAccept, AfterAccept
<1>32. ASSUME NEW t \in Workers \cup {Starter}, IncrementPending(t)
    PROVE  pc'[u] = "fault"
  BY <1>32 DEF IncrementPending, At
<1>33. ASSUME NEW t \in Workers \cup {Starter}, AcceptExSucceeds(t)
    PROVE  pc'[u] = "fault"
  BY <1>33 DEF AcceptExSucceeds, At, AfterAccept
<1>34. ASSUME NEW t \in Workers \cup {Starter}, AcceptExFails(t)
    PROVE  pc'[u] = "fault"
  BY <1>34 DEF AcceptExFails, At, AfterAccept, RemoveFromMap
<1>35. ASSUME NEW t \in Workers \cup {Starter}, AcceptorFaults(t)
    PROVE  pc'[u] = "fault"
  BY <1>35 DEF AcceptorFaults
<1>36. ASSUME StartFails
    PROVE  pc'[u] = "fault"
  BY <1>36 DEF StartFails
<1>37. QED
    BY Next, <1>1, <1>2, <1>3, <1>4, <1>5, <1>6, <1>7, <1>8, <1>9, <1>10, <1>11, <1>12, <1>13,
       <1>14, <1>15, <1>16, <1>17, <1>18, <1>19, <1>20, <1>21, <1>22, <1>23, <1>24, <1>25, <1>26,
       <1>27, <1>28, <1>29, <1>30, <1>31, <1>32, <1>33, <1>34, <1>35, <1>36
       DEF Next, ClientNext, AcceptorNext, Kernel, TakeCompletion, CheckReleaseStep, ConnectionStep,
              AppStep, Assist, AcceptConnection, PostAccept

\* The count stays high enough, and the deleted acceptor has nobody left.
LEMMA AcceptorInvStep ==
    ASSUME RefIInv, AcceptorInv, [Next]_vars
    PROVE  AcceptorInv'
<1>1. CASE Next
  <2>1. AcceptCounted'
    <3>1. Balanced \/ Slack
      BY <1>1, AcceptStep
    <3>2. pendingAccept' \in Int /\ pendingAccept \in Int /\ Accepts \in Int /\ Accepts' \in Int
      BY TypeStep, AcceptsCounted DEF RefIInv, TypeOK, AcceptorTypeOK
    <3>3. QED BY <3>1, <3>2 DEF AcceptorInv, AcceptCounted, Balanced, Slack, Accepts
  <2>2. QED BY <1>1, <2>1, AcceptorIdleStep DEF AcceptorInv
<1>2. CASE UNCHANGED vars
  BY <1>2 DEF vars, ctxVars, connVars, acceptorVars, AcceptorInv, AcceptCounted, Accepts,
              AcceptsOutstanding, AcceptWorkers, AcceptExs, AcceptorIdle
<1>3. QED BY <1>1, <1>2

\* The server starts with no accept anywhere.
LEMMA NoAccepts == Init => Accepts = 0 /\ AcceptorInv
<1> SUFFICES ASSUME Init PROVE Accepts = 0 /\ AcceptorInv
  OBVIOUS
<1>1. AcceptsOutstanding = {} /\ AcceptWorkers = {} /\ AcceptExs = {}
  BY ThreadsDisjoint DEF Init, Threads, Ctx, AcceptsOutstanding, AcceptWorkers, AcceptExs, AcceptPCs
<1>2. Accepts = 0
  BY <1>1, FS_EmptySet DEF Accepts
<1>3. QED BY <1>2 DEF Init, AcceptorInv, AcceptCounted

\* Once StartNetService is past its own cleanup, the acceptor goes only when no
\* accept is outstanding and no worker is still in its completion routine.
THEOREM AcceptorOutlives == Spec => []StartedAcceptorOutlives
<1>1. RefIInv /\ AcceptorInv /\ [Next]_vars => AcceptorInv'
  BY AcceptorInvStep
<1>2. AcceptorInv => StartedAcceptorOutlives
  BY DEF AcceptorInv, StartedAcceptorOutlives, AcceptorOutlivesAccepts
<1>3. QED BY <1>1, <1>2, NoAccepts, RefIInvCorrect, PTL DEF Spec

\* mPendingAcceptCount is the number of accepts being posted or outstanding plus
\* the workers still in the completion routine of one, unless a callback throws or
\* a thread is lost.
THEOREM PendingAcceptExact ==
    ASSUME ~CallbackThrows
    PROVE  Spec => []AcceptCountExact
<1> DEFINE Exact == (\A t \in Threads : pc[t] # "fault") => pendingAccept = Accepts
<1>1. Init => Exact
  BY NoAccepts DEF Init
<1>2. RefIInv /\ Exact /\ [Next]_vars => Exact'
  <2> SUFFICES ASSUME RefIInv, Exact, [Next]_vars, \A t \in Threads : pc'[t] # "fault"
               PROVE  pendingAccept' = Accepts'
    OBVIOUS
  <2>1. \A t \in Threads : pc[t] # "fault"
    BY FaultStays DEF RefIInv, TypeOK, vars
  <2>2. pendingAccept' \in Int /\ pendingAccept \in Int /\ Accepts \in Int /\ Accepts' \in Int
    BY TypeStep, AcceptsCounted DEF RefIInv, TypeOK, AcceptorTypeOK
  <2>3. CASE Next
    <3>1. Balanced
      BY <2>3, AcceptStep DEF Slack
    <3>2. QED BY <2>1, <2>2, <3>1 DEF Balanced, Accepts
  <2>4. CASE UNCHANGED vars
    BY <2>1, <2>4 DEF vars, ctxVars, connVars, acceptorVars, Accepts, AcceptsOutstanding, AcceptWorkers, AcceptExs
  <2>5. QED BY <2>3, <2>4
<1>3. Exact => AcceptCountExact
  BY DEF AcceptCountExact, Accepts, AcceptWorkers, AcceptExs
<1> HIDE DEF Exact
<1>4. QED BY <1>1, <1>2, <1>3, RefIInvCorrect, PTL DEF Spec

=============================================================================
