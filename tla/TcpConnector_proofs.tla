-------------------------- MODULE TcpConnector_proofs --------------------------
(***************************************************************************)
(* Proofs about TcpConnector for any numbers of clients, contexts and        *)
(* threads, from the invariants of TcpConnectorInv: the references, whatever *)
(* fails; the count of operations and the answer to ConnectServer, as long   *)
(* as PostQueuedCompletionStatus does not fail.  Each lemma about a step has *)
(* one step per action of Next, in the order of the modules.                 *)
(***************************************************************************)
EXTENDS TcpConnectorInv, FiniteSetTheorems, TLAPS

\* A count stays an integer whether or not the client it belongs to exists.
LEMMA CountUpdate ==
    ASSUME NEW S, NEW f \in [S -> Int], NEW i
    PROVE  /\ [f EXCEPT ![i] = @ + 1] \in [S -> Int]
           /\ [f EXCEPT ![i] = @ - 1] \in [S -> Int]
<1>1. CASE i \in S BY <1>1
<1>2. CASE i \notin S BY <1>2
<1>3. QED BY <1>1, <1>2

-----------------------------------------------------------------------------
(* Types. *)

\* A client keeps its types.
LEMMA ClientTypes ==
    ASSUME ClientTypeOK, Next
    PROVE  ClientTypeOK'
<1> USE DEF ClientTypeOK, poolVars, connVars
<1>1. ASSUME NEW x \in Ctx, KernelCompletes(x), UNCHANGED connectorVars
    PROVE  ClientTypeOK'
  BY <1>1 DEF KernelCompletes
<1>2. ASSUME NEW x \in Ctx, KernelAborts(x), UNCHANGED connectorVars
    PROVE  ClientTypeOK'
  BY <1>2 DEF KernelAborts
<1>3. ASSUME NEW c \in Clients, GoesStale(c), UNCHANGED connectorVars
    PROVE  ClientTypeOK'
  BY <1>3 DEF GoesStale
<1>4. ASSUME NEW w \in Workers, NEW c \in Clients, RecvCompleted(w, c), UNCHANGED connectorVars
    PROVE  ClientTypeOK'
  BY <1>4 DEF RecvCompleted, Dequeue, ClientOf
<1>5. ASSUME NEW w \in Workers, NEW x \in IOContexts,
           SendCompleted(w, x), UNCHANGED connectorVars
    PROVE  ClientTypeOK'
  BY <1>5 DEF SendCompleted, Dequeue, ReleaseContext, ClientOf
<1>6. ASSUME NEW w \in Workers, NEW x \in IOContexts,
           SpecialCompleted(w, x), UNCHANGED connectorVars
    PROVE  ClientTypeOK'
  BY <1>6 DEF SpecialCompleted, Dequeue, ReleaseContext, ClientOf
<1>7. ASSUME NEW w \in Workers, NEW x \in Ctx, DequeueFaults(w, x), UNCHANGED connectorVars
    PROVE  ClientTypeOK'
  BY <1>7 DEF DequeueFaults, ClientOf
<1>8. ASSUME NEW w \in Workers, OnRecvCompletion(w), UNCHANGED connectorVars
    PROVE  ClientTypeOK'
  <2>1. recvPacket' \in [Clients -> BOOLEAN]
    BY <1>8 DEF OnRecvCompletion
  <2>2. told' \in [Clients -> SUBSET {"connected", "received", "closed"}]
    BY <1>8 DEF OnRecvCompletion, Tell
  <2>3. QED BY <1>8, <2>1, <2>2 DEF OnRecvCompletion
<1>9. ASSUME NEW w \in Workers,
           PostRecv(w, "postRecv", "issueRecv"), UNCHANGED connectorVars
    PROVE  ClientTypeOK'
  <2>1. pendingIO' \in [Clients -> Int]
    BY <1>9, CountUpdate DEF PostRecv
  <2>2. recvOp' \in [Clients -> {"idle", "connect", "recv"}]
    BY <1>9 DEF PostRecv
  <2>3. QED BY <1>9, <2>1, <2>2 DEF PostRecv
<1>10. ASSUME NEW w \in Workers,
           IssueRecv(w, "issueRecv", "release", "disconnect"), UNCHANGED connectorVars
    PROVE  ClientTypeOK'
  BY <1>10 DEF IssueRecv, At
<1>11. ASSUME NEW w \in Workers, SetDisconnect(w), UNCHANGED connectorVars
    PROVE  ClientTypeOK'
  BY <1>11 DEF SetDisconnect, At
<1>12. ASSUME NEW t \in Workers \cup AppThreads, DecreaseIOCount(t), UNCHANGED connectorVars
    PROVE  ClientTypeOK'
  <2>1. pendingIO' \in [Clients -> Int]
    BY <1>12, CountUpdate DEF DecreaseIOCount
  <2>2. QED BY <1>12, <2>1 DEF DecreaseIOCount
<1>13. ASSUME NEW t \in Workers \cup AppThreads, MarkClosed(t), UNCHANGED connectorVars
    PROVE  ClientTypeOK'
  BY <1>13 DEF MarkClosed, At
<1>14. ASSUME NEW t \in Workers \cup AppThreads, ReportClosed(t), UNCHANGED connectorVars
    PROVE  ClientTypeOK'
  <2>1. recvPacket' \in [Clients -> BOOLEAN]
    BY <1>14 DEF ReportClosed
  <2>2. told' \in [Clients -> SUBSET {"connected", "received", "closed"}]
    BY <1>14 DEF ReportClosed, Tell
  <2>3. QED BY <1>14, <2>1, <2>2 DEF ReportClosed
<1>15. ASSUME NEW t \in Workers \cup AppThreads, RemoveClient(t), UNCHANGED connectorVars
    PROVE  ClientTypeOK'
  <2>1. mem' \in [Clients -> {"unused", "live", "freed"}]
    BY <1>15 DEF RemoveClient, RemoveFromMap
  <2>2. marked' \in [Clients -> BOOLEAN]
    BY <1>15 DEF RemoveClient, RemoveFromMap
  <2>3. QED BY <1>15, <2>1, <2>2 DEF RemoveClient
<1>16. ASSUME NEW a \in AppThreads, NEW c \in Clients,
           FindClient(a, c), UNCHANGED connectorVars
    PROVE  ClientTypeOK'
  BY <1>16 DEF FindClient
<1>17. ASSUME NEW a \in AppThreads, PostSend(a), UNCHANGED connectorVars
    PROVE  ClientTypeOK'
  BY <1>17 DEF PostSend, At, UseContext, FreeContexts
<1>18. ASSUME NEW a \in AppThreads, CloseSocket(a), UNCHANGED connectorVars
    PROVE  ClientTypeOK'
  BY <1>18 DEF CloseSocket, At, PostSpecial, UseContext, FreeContexts
<1>19. ASSUME NEW a \in AppThreads, UnRef(a), UNCHANGED connectorVars
    PROVE  ClientTypeOK'
  <2>1. refCount' \in [Clients -> Int]
    BY <1>19, CountUpdate DEF UnRef
  <2>2. QED BY <1>19, <2>1 DEF UnRef
<1>20. ASSUME NEW t \in Threads, Faults(t), UNCHANGED connectorVars
    PROVE  ClientTypeOK'
  BY <1>20 DEF Faults
<1>21. ASSUME NEW c \in Clients, CheckStatus(c), UNCHANGED connectorVars
    PROVE  ClientTypeOK'
  BY <1>21 DEF CheckStatus, PostSpecial, UseContext, FreeContexts, Unused
<1>22. ASSUME NEW c \in Clients, CheckStatusFails(c), UNCHANGED connectorVars
    PROVE  ClientTypeOK'
  <2>1. mem' \in [Clients -> {"unused", "live", "freed"}]
    BY <1>22 DEF CheckStatusFails, RemoveFromMap, Unused
  <2>2. marked' \in [Clients -> BOOLEAN]
    BY <1>22 DEF CheckStatusFails, RemoveFromMap
  <2>3. pendingIO' \in [Clients -> Int]
    BY <1>22, CountUpdate DEF CheckStatusFails
  <2>4. recvPacket' \in [Clients -> BOOLEAN]
    BY <1>22 DEF CheckStatusFails
  <2>5. connState' \in [Clients -> {"CLOSED", "CONNECTED", "CLOSING"}]
    BY <1>22 DEF CheckStatusFails
  <2>6. told' \in [Clients -> SUBSET {"connected", "received", "closed"}]
    BY <1>22 DEF CheckStatusFails, Tell
  <2>7. QED BY <1>22, <2>1, <2>2, <2>3, <2>4, <2>5, <2>6 DEF CheckStatusFails
<1>23. ASSUME NEW a \in AppThreads, BeginConnect(a)
    PROVE  ClientTypeOK'
  BY <1>23 DEF BeginConnect
<1>24. ASSUME NEW a \in AppThreads, PostConnect(a)
    PROVE  ClientTypeOK'
  <2>1. pendingIO' \in [Clients -> Int]
    BY <1>24, CountUpdate DEF PostConnect
  <2>2. refCount' \in [Clients -> Int]
    BY <1>24, CountUpdate DEF PostConnect
  <2>3. socket' \in [Clients -> {"open", "invalid"}]
    BY <1>24 DEF PostConnect
  <2>4. recvOp' \in [Clients -> {"idle", "connect", "recv"}]
    BY <1>24 DEF PostConnect
  <2>5. QED BY <1>24, <2>1, <2>2, <2>3, <2>4 DEF PostConnect
<1>25. ASSUME NEW a \in AppThreads, RemoveUnconnected(a)
    PROVE  ClientTypeOK'
  <2>1. mem' \in [Clients -> {"unused", "live", "freed"}]
    BY <1>25 DEF RemoveUnconnected, RemoveFromMap
  <2>2. marked' \in [Clients -> BOOLEAN]
    BY <1>25 DEF RemoveUnconnected, RemoveFromMap
  <2>3. QED BY <1>25, <2>1, <2>2 DEF RemoveUnconnected
<1>26. ASSUME NEW a \in AppThreads, ConnectAnswered(a)
    PROVE  ClientTypeOK'
  BY <1>26 DEF ConnectAnswered, At, Returns
<1>27. ASSUME NEW a \in AppThreads, ConnectTimesOut(a)
    PROVE  ClientTypeOK'
  BY <1>27 DEF ConnectTimesOut, At, Returns, PostSpecial, UseContext, FreeContexts
<1>28. ASSUME NEW w \in Workers, NEW c \in Clients, ConnectCompleted(w, c)
    PROVE  ClientTypeOK'
  BY <1>28 DEF ConnectCompleted, Dequeue, ClientOf
<1>29. ASSUME NEW w \in Workers, NEW c \in Clients, ConnectRefused(w, c)
    PROVE  ClientTypeOK'
  BY <1>29 DEF ConnectRefused, ConnectFailed, Dequeue, ClientOf
<1>30. ASSUME NEW w \in Workers, NEW x \in IOContexts, ConnectTimeoutCompleted(w, x)
    PROVE  ClientTypeOK'
  BY <1>30 DEF ConnectTimeoutCompleted, ConnectFailed, Dequeue, ReleaseContext, ClientOf
<1>31. ASSUME NEW w \in Workers,
           PostRecv(w, "connectPostRecv", "connectIssueRecv"), UNCHANGED connectorVars
    PROVE  ClientTypeOK'
  <2>1. pendingIO' \in [Clients -> Int]
    BY <1>31, CountUpdate DEF PostRecv
  <2>2. recvOp' \in [Clients -> {"idle", "connect", "recv"}]
    BY <1>31 DEF PostRecv
  <2>3. QED BY <1>31, <2>1, <2>2 DEF PostRecv
<1>32. ASSUME NEW w \in Workers,
           IssueRecv(w, "connectIssueRecv", "connectPostSem", "disconnect"), UNCHANGED connectorVars
    PROVE  ClientTypeOK'
  BY <1>32 DEF IssueRecv, At
<1>33. ASSUME NEW w \in Workers, PostSem(w)
    PROVE  ClientTypeOK'
  BY <1>33 DEF PostSem, At
<1>34. ASSUME NEW w \in Workers, ReportConnected(w)
    PROVE  ClientTypeOK'
  BY <1>34 DEF ReportConnected, At, Tell
<1>35. QED
    BY Next, <1>1, <1>2, <1>3, <1>4, <1>5, <1>6, <1>7, <1>8, <1>9, <1>10, <1>11, <1>12, <1>13,
          <1>14, <1>15, <1>16, <1>17, <1>18, <1>19, <1>20, <1>21, <1>22, <1>23, <1>24, <1>25,
          <1>26, <1>27, <1>28, <1>29, <1>30, <1>31, <1>32, <1>33, <1>34
       DEF Next, ClientNext, ConnectNext, ConnectServer, ConnectCompletion, Kernel, TakeCompletion,
           CheckReleaseStep, ConnectionStep, AppStep, Assist

\* An operation and its context keep their types.
LEMMA ContextTypes ==
    ASSUME ContextTypeOK, ThreadTypeOK, Next
    PROVE  ContextTypeOK'
<1> USE DEF ContextTypeOK, ThreadTypeOK, ctxVars, Ctx, Threads
<1>1. ASSUME NEW x \in Ctx, KernelCompletes(x), UNCHANGED connectorVars
    PROVE  ContextTypeOK'
  BY <1>1 DEF KernelCompletes
<1>2. ASSUME NEW x \in Ctx, KernelAborts(x), UNCHANGED connectorVars
    PROVE  ContextTypeOK'
  BY <1>2 DEF KernelAborts
<1>3. ASSUME NEW c \in Clients, GoesStale(c), UNCHANGED connectorVars
    PROVE  ContextTypeOK'
  BY <1>3 DEF GoesStale
<1>4. ASSUME NEW w \in Workers, NEW c \in Clients, RecvCompleted(w, c), UNCHANGED connectorVars
    PROVE  ContextTypeOK'
  BY <1>4 DEF RecvCompleted, Dequeue, ClientOf
<1>5. ASSUME NEW w \in Workers, NEW x \in IOContexts,
           SendCompleted(w, x), UNCHANGED connectorVars
    PROVE  ContextTypeOK'
  BY <1>5 DEF SendCompleted, Dequeue, ReleaseContext, ClientOf
<1>6. ASSUME NEW w \in Workers, NEW x \in IOContexts,
           SpecialCompleted(w, x), UNCHANGED connectorVars
    PROVE  ContextTypeOK'
  BY <1>6 DEF SpecialCompleted, Dequeue, ReleaseContext, ClientOf
<1>7. ASSUME NEW w \in Workers, NEW x \in Ctx, DequeueFaults(w, x), UNCHANGED connectorVars
    PROVE  ContextTypeOK'
  BY <1>7 DEF DequeueFaults, ClientOf
<1>8. ASSUME NEW w \in Workers, OnRecvCompletion(w), UNCHANGED connectorVars
    PROVE  ContextTypeOK'
  BY <1>8 DEF OnRecvCompletion, At, Tell
<1>9. ASSUME NEW w \in Workers,
           PostRecv(w, "postRecv", "issueRecv"), UNCHANGED connectorVars
    PROVE  ContextTypeOK'
  BY <1>9 DEF PostRecv, At
<1>10. ASSUME NEW w \in Workers,
           IssueRecv(w, "issueRecv", "release", "disconnect"), UNCHANGED connectorVars
    PROVE  ContextTypeOK'
  BY <1>10 DEF IssueRecv, At
<1>11. ASSUME NEW w \in Workers, SetDisconnect(w), UNCHANGED connectorVars
    PROVE  ContextTypeOK'
  BY <1>11 DEF SetDisconnect, At
<1>12. ASSUME NEW t \in Workers \cup AppThreads, DecreaseIOCount(t), UNCHANGED connectorVars
    PROVE  ContextTypeOK'
  BY <1>12 DEF DecreaseIOCount, At, Return
<1>13. ASSUME NEW t \in Workers \cup AppThreads, MarkClosed(t), UNCHANGED connectorVars
    PROVE  ContextTypeOK'
  BY <1>13 DEF MarkClosed, At
<1>14. ASSUME NEW t \in Workers \cup AppThreads, ReportClosed(t), UNCHANGED connectorVars
    PROVE  ContextTypeOK'
  BY <1>14 DEF ReportClosed, At, Return, Tell
<1>15. ASSUME NEW t \in Workers \cup AppThreads, RemoveClient(t), UNCHANGED connectorVars
    PROVE  ContextTypeOK'
  BY <1>15 DEF RemoveClient, At, Return, RemoveFromMap
<1>16. ASSUME NEW a \in AppThreads, NEW c \in Clients,
           FindClient(a, c), UNCHANGED connectorVars
    PROVE  ContextTypeOK'
  BY <1>16 DEF FindClient
<1>17. ASSUME NEW a \in AppThreads, PostSend(a), UNCHANGED connectorVars
    PROVE  ContextTypeOK'
  BY <1>17 DEF PostSend, At, UseContext, FreeContexts
<1>18. ASSUME NEW a \in AppThreads, CloseSocket(a), UNCHANGED connectorVars
    PROVE  ContextTypeOK'
  BY <1>18 DEF CloseSocket, At, PostSpecial, UseContext, FreeContexts
<1>19. ASSUME NEW a \in AppThreads, UnRef(a), UNCHANGED connectorVars
    PROVE  ContextTypeOK'
  BY <1>19 DEF UnRef, At
<1>20. ASSUME NEW t \in Threads, Faults(t), UNCHANGED connectorVars
    PROVE  ContextTypeOK'
  BY <1>20 DEF Faults
<1>21. ASSUME NEW c \in Clients, CheckStatus(c), UNCHANGED connectorVars
    PROVE  ContextTypeOK'
  BY <1>21 DEF CheckStatus, PostSpecial, UseContext, FreeContexts, Unused
<1>22. ASSUME NEW c \in Clients, CheckStatusFails(c), UNCHANGED connectorVars
    PROVE  ContextTypeOK'
  BY <1>22 DEF CheckStatusFails, RemoveFromMap, Unused, Tell
<1>23. ASSUME NEW a \in AppThreads, BeginConnect(a)
    PROVE  ContextTypeOK'
  BY <1>23 DEF BeginConnect
<1>24. ASSUME NEW a \in AppThreads, PostConnect(a)
    PROVE  ContextTypeOK'
  BY <1>24 DEF PostConnect, At
<1>25. ASSUME NEW a \in AppThreads, RemoveUnconnected(a)
    PROVE  ContextTypeOK'
  BY <1>25 DEF RemoveUnconnected, RemoveFromMap, Returns
<1>26. ASSUME NEW a \in AppThreads, ConnectAnswered(a)
    PROVE  ContextTypeOK'
  BY <1>26 DEF ConnectAnswered, At, Returns
<1>27. ASSUME NEW a \in AppThreads, ConnectTimesOut(a)
    PROVE  ContextTypeOK'
  BY <1>27 DEF ConnectTimesOut, At, Returns, PostSpecial, UseContext, FreeContexts
<1>28. ASSUME NEW w \in Workers, NEW c \in Clients, ConnectCompleted(w, c)
    PROVE  ContextTypeOK'
  BY <1>28 DEF ConnectCompleted, Dequeue, ClientOf
<1>29. ASSUME NEW w \in Workers, NEW c \in Clients, ConnectRefused(w, c)
    PROVE  ContextTypeOK'
  BY <1>29 DEF ConnectRefused, ConnectFailed, Dequeue, ClientOf
<1>30. ASSUME NEW w \in Workers, NEW x \in IOContexts, ConnectTimeoutCompleted(w, x)
    PROVE  ContextTypeOK'
  BY <1>30 DEF ConnectTimeoutCompleted, ConnectFailed, Dequeue, ReleaseContext, ClientOf
<1>31. ASSUME NEW w \in Workers,
           PostRecv(w, "connectPostRecv", "connectIssueRecv"), UNCHANGED connectorVars
    PROVE  ContextTypeOK'
  BY <1>31 DEF PostRecv, At
<1>32. ASSUME NEW w \in Workers,
           IssueRecv(w, "connectIssueRecv", "connectPostSem", "disconnect"), UNCHANGED connectorVars
    PROVE  ContextTypeOK'
  BY <1>32 DEF IssueRecv, At
<1>33. ASSUME NEW w \in Workers, PostSem(w)
    PROVE  ContextTypeOK'
  BY <1>33 DEF PostSem, At
<1>34. ASSUME NEW w \in Workers, ReportConnected(w)
    PROVE  ContextTypeOK'
  BY <1>34 DEF ReportConnected, At, Tell
<1>35. QED
    BY Next, <1>1, <1>2, <1>3, <1>4, <1>5, <1>6, <1>7, <1>8, <1>9, <1>10, <1>11, <1>12, <1>13,
          <1>14, <1>15, <1>16, <1>17, <1>18, <1>19, <1>20, <1>21, <1>22, <1>23, <1>24, <1>25,
          <1>26, <1>27, <1>28, <1>29, <1>30, <1>31, <1>32, <1>33, <1>34
       DEF Next, ClientNext, ConnectNext, ConnectServer, ConnectCompletion, Kernel, TakeCompletion,
           CheckReleaseStep, ConnectionStep, AppStep, Assist

\* A thread stays at a place it knows.
LEMMA ThreadTypes ==
    ASSUME ContextTypeOK, ThreadTypeOK, Next
    PROVE  ThreadTypeOK'
<1> USE DEF ContextTypeOK, ThreadTypeOK, Goto, Threads, PCs, Ctx
<1>1. ASSUME NEW x \in Ctx, KernelCompletes(x), UNCHANGED connectorVars
    PROVE  ThreadTypeOK'
  BY <1>1 DEF KernelCompletes
<1>2. ASSUME NEW x \in Ctx, KernelAborts(x), UNCHANGED connectorVars
    PROVE  ThreadTypeOK'
  BY <1>2 DEF KernelAborts
<1>3. ASSUME NEW c \in Clients, GoesStale(c), UNCHANGED connectorVars
    PROVE  ThreadTypeOK'
  BY <1>3 DEF GoesStale
<1>4. ASSUME NEW w \in Workers, NEW c \in Clients, RecvCompleted(w, c), UNCHANGED connectorVars
    PROVE  ThreadTypeOK'
  BY <1>4 DEF RecvCompleted, Dequeue, ClientOf
<1>5. ASSUME NEW w \in Workers, NEW x \in IOContexts,
           SendCompleted(w, x), UNCHANGED connectorVars
    PROVE  ThreadTypeOK'
  BY <1>5 DEF SendCompleted, Dequeue, ReleaseContext, ClientOf
<1>6. ASSUME NEW w \in Workers, NEW x \in IOContexts,
           SpecialCompleted(w, x), UNCHANGED connectorVars
    PROVE  ThreadTypeOK'
  BY <1>6 DEF SpecialCompleted, Dequeue, ReleaseContext, ClientOf
<1>7. ASSUME NEW w \in Workers, NEW x \in Ctx, DequeueFaults(w, x), UNCHANGED connectorVars
    PROVE  ThreadTypeOK'
  BY <1>7 DEF DequeueFaults, ClientOf
<1>8. ASSUME NEW w \in Workers, OnRecvCompletion(w), UNCHANGED connectorVars
    PROVE  ThreadTypeOK'
  BY <1>8 DEF OnRecvCompletion, At, Tell
<1>9. ASSUME NEW w \in Workers,
           PostRecv(w, "postRecv", "issueRecv"), UNCHANGED connectorVars
    PROVE  ThreadTypeOK'
  BY <1>9 DEF PostRecv, At
<1>10. ASSUME NEW w \in Workers,
           IssueRecv(w, "issueRecv", "release", "disconnect"), UNCHANGED connectorVars
    PROVE  ThreadTypeOK'
  BY <1>10 DEF IssueRecv, At
<1>11. ASSUME NEW w \in Workers, SetDisconnect(w), UNCHANGED connectorVars
    PROVE  ThreadTypeOK'
  BY <1>11 DEF SetDisconnect, At
<1>12. ASSUME NEW t \in Workers \cup AppThreads, DecreaseIOCount(t), UNCHANGED connectorVars
    PROVE  ThreadTypeOK'
  BY <1>12 DEF DecreaseIOCount, At, Return
<1>13. ASSUME NEW t \in Workers \cup AppThreads, MarkClosed(t), UNCHANGED connectorVars
    PROVE  ThreadTypeOK'
  BY <1>13 DEF MarkClosed, At
<1>14. ASSUME NEW t \in Workers \cup AppThreads, ReportClosed(t), UNCHANGED connectorVars
    PROVE  ThreadTypeOK'
  BY <1>14 DEF ReportClosed, At, Return, Tell
<1>15. ASSUME NEW t \in Workers \cup AppThreads, RemoveClient(t), UNCHANGED connectorVars
    PROVE  ThreadTypeOK'
  BY <1>15 DEF RemoveClient, At, Return, RemoveFromMap
<1>16. ASSUME NEW a \in AppThreads, NEW c \in Clients,
           FindClient(a, c), UNCHANGED connectorVars
    PROVE  ThreadTypeOK'
  BY <1>16 DEF FindClient
<1>17. ASSUME NEW a \in AppThreads, PostSend(a), UNCHANGED connectorVars
    PROVE  ThreadTypeOK'
  BY <1>17 DEF PostSend, At, UseContext, FreeContexts
<1>18. ASSUME NEW a \in AppThreads, CloseSocket(a), UNCHANGED connectorVars
    PROVE  ThreadTypeOK'
  BY <1>18 DEF CloseSocket, At, PostSpecial, UseContext, FreeContexts
<1>19. ASSUME NEW a \in AppThreads, UnRef(a), UNCHANGED connectorVars
    PROVE  ThreadTypeOK'
  BY <1>19 DEF UnRef, At
<1>20. ASSUME NEW t \in Threads, Faults(t), UNCHANGED connectorVars
    PROVE  ThreadTypeOK'
  BY <1>20 DEF Faults
<1>21. ASSUME NEW c \in Clients, CheckStatus(c), UNCHANGED connectorVars
    PROVE  ThreadTypeOK'
  BY <1>21 DEF CheckStatus, PostSpecial, UseContext, FreeContexts, Unused
<1>22. ASSUME NEW c \in Clients, CheckStatusFails(c), UNCHANGED connectorVars
    PROVE  ThreadTypeOK'
  BY <1>22 DEF CheckStatusFails, RemoveFromMap, Unused, Tell
<1>23. ASSUME NEW a \in AppThreads, BeginConnect(a)
    PROVE  ThreadTypeOK'
  BY <1>23 DEF BeginConnect
<1>24. ASSUME NEW a \in AppThreads, PostConnect(a)
    PROVE  ThreadTypeOK'
  BY <1>24 DEF PostConnect, At
<1>25. ASSUME NEW a \in AppThreads, RemoveUnconnected(a)
    PROVE  ThreadTypeOK'
  BY <1>25 DEF RemoveUnconnected, RemoveFromMap, Returns
<1>26. ASSUME NEW a \in AppThreads, ConnectAnswered(a)
    PROVE  ThreadTypeOK'
  BY <1>26 DEF ConnectAnswered, At, Returns
<1>27. ASSUME NEW a \in AppThreads, ConnectTimesOut(a)
    PROVE  ThreadTypeOK'
  BY <1>27 DEF ConnectTimesOut, At, Returns, PostSpecial, UseContext, FreeContexts
<1>28. ASSUME NEW w \in Workers, NEW c \in Clients, ConnectCompleted(w, c)
    PROVE  ThreadTypeOK'
  BY <1>28 DEF ConnectCompleted, Dequeue, ClientOf
<1>29. ASSUME NEW w \in Workers, NEW c \in Clients, ConnectRefused(w, c)
    PROVE  ThreadTypeOK'
  BY <1>29 DEF ConnectRefused, ConnectFailed, Dequeue, ClientOf
<1>30. ASSUME NEW w \in Workers, NEW x \in IOContexts, ConnectTimeoutCompleted(w, x)
    PROVE  ThreadTypeOK'
  BY <1>30 DEF ConnectTimeoutCompleted, ConnectFailed, Dequeue, ReleaseContext, ClientOf
<1>31. ASSUME NEW w \in Workers,
           PostRecv(w, "connectPostRecv", "connectIssueRecv"), UNCHANGED connectorVars
    PROVE  ThreadTypeOK'
  BY <1>31 DEF PostRecv, At
<1>32. ASSUME NEW w \in Workers,
           IssueRecv(w, "connectIssueRecv", "connectPostSem", "disconnect"), UNCHANGED connectorVars
    PROVE  ThreadTypeOK'
  BY <1>32 DEF IssueRecv, At
<1>33. ASSUME NEW w \in Workers, PostSem(w)
    PROVE  ThreadTypeOK'
  BY <1>33 DEF PostSem, At
<1>34. ASSUME NEW w \in Workers, ReportConnected(w)
    PROVE  ThreadTypeOK'
  BY <1>34 DEF ReportConnected, At, Tell
<1>35. QED
    BY Next, <1>1, <1>2, <1>3, <1>4, <1>5, <1>6, <1>7, <1>8, <1>9, <1>10, <1>11, <1>12, <1>13,
          <1>14, <1>15, <1>16, <1>17, <1>18, <1>19, <1>20, <1>21, <1>22, <1>23, <1>24, <1>25,
          <1>26, <1>27, <1>28, <1>29, <1>30, <1>31, <1>32, <1>33, <1>34
       DEF Next, ClientNext, ConnectNext, ConnectServer, ConnectCompletion, Kernel, TakeCompletion,
           CheckReleaseStep, ConnectionStep, AppStep, Assist

\* The semaphore is posted without limit and waited for only when posted.
LEMMA ConnectorTypes ==
    ASSUME ConnectorTypeOK, Next
    PROVE  ConnectorTypeOK'
<1> USE DEF ConnectorTypeOK, connectorVars
<1>1. ASSUME NEW x \in Ctx, KernelCompletes(x), UNCHANGED connectorVars
    PROVE  ConnectorTypeOK'
  BY <1>1 DEF KernelCompletes
<1>2. ASSUME NEW x \in Ctx, KernelAborts(x), UNCHANGED connectorVars
    PROVE  ConnectorTypeOK'
  BY <1>2 DEF KernelAborts
<1>3. ASSUME NEW c \in Clients, GoesStale(c), UNCHANGED connectorVars
    PROVE  ConnectorTypeOK'
  BY <1>3 DEF GoesStale
<1>4. ASSUME NEW w \in Workers, NEW c \in Clients, RecvCompleted(w, c), UNCHANGED connectorVars
    PROVE  ConnectorTypeOK'
  BY <1>4 DEF RecvCompleted, Dequeue, ClientOf
<1>5. ASSUME NEW w \in Workers, NEW x \in IOContexts,
           SendCompleted(w, x), UNCHANGED connectorVars
    PROVE  ConnectorTypeOK'
  BY <1>5 DEF SendCompleted, Dequeue, ReleaseContext, ClientOf
<1>6. ASSUME NEW w \in Workers, NEW x \in IOContexts,
           SpecialCompleted(w, x), UNCHANGED connectorVars
    PROVE  ConnectorTypeOK'
  BY <1>6 DEF SpecialCompleted, Dequeue, ReleaseContext, ClientOf
<1>7. ASSUME NEW w \in Workers, NEW x \in Ctx, DequeueFaults(w, x), UNCHANGED connectorVars
    PROVE  ConnectorTypeOK'
  BY <1>7 DEF DequeueFaults, ClientOf
<1>8. ASSUME NEW w \in Workers, OnRecvCompletion(w), UNCHANGED connectorVars
    PROVE  ConnectorTypeOK'
  BY <1>8 DEF OnRecvCompletion, At, Tell
<1>9. ASSUME NEW w \in Workers,
           PostRecv(w, "postRecv", "issueRecv"), UNCHANGED connectorVars
    PROVE  ConnectorTypeOK'
  BY <1>9 DEF PostRecv, At
<1>10. ASSUME NEW w \in Workers,
           IssueRecv(w, "issueRecv", "release", "disconnect"), UNCHANGED connectorVars
    PROVE  ConnectorTypeOK'
  BY <1>10 DEF IssueRecv, At
<1>11. ASSUME NEW w \in Workers, SetDisconnect(w), UNCHANGED connectorVars
    PROVE  ConnectorTypeOK'
  BY <1>11 DEF SetDisconnect, At
<1>12. ASSUME NEW t \in Workers \cup AppThreads, DecreaseIOCount(t), UNCHANGED connectorVars
    PROVE  ConnectorTypeOK'
  BY <1>12 DEF DecreaseIOCount, At, Return
<1>13. ASSUME NEW t \in Workers \cup AppThreads, MarkClosed(t), UNCHANGED connectorVars
    PROVE  ConnectorTypeOK'
  BY <1>13 DEF MarkClosed, At
<1>14. ASSUME NEW t \in Workers \cup AppThreads, ReportClosed(t), UNCHANGED connectorVars
    PROVE  ConnectorTypeOK'
  BY <1>14 DEF ReportClosed, At, Return, Tell
<1>15. ASSUME NEW t \in Workers \cup AppThreads, RemoveClient(t), UNCHANGED connectorVars
    PROVE  ConnectorTypeOK'
  BY <1>15 DEF RemoveClient, At, Return, RemoveFromMap
<1>16. ASSUME NEW a \in AppThreads, NEW c \in Clients,
           FindClient(a, c), UNCHANGED connectorVars
    PROVE  ConnectorTypeOK'
  BY <1>16 DEF FindClient
<1>17. ASSUME NEW a \in AppThreads, PostSend(a), UNCHANGED connectorVars
    PROVE  ConnectorTypeOK'
  BY <1>17 DEF PostSend, At, UseContext, FreeContexts
<1>18. ASSUME NEW a \in AppThreads, CloseSocket(a), UNCHANGED connectorVars
    PROVE  ConnectorTypeOK'
  BY <1>18 DEF CloseSocket, At, PostSpecial, UseContext, FreeContexts
<1>19. ASSUME NEW a \in AppThreads, UnRef(a), UNCHANGED connectorVars
    PROVE  ConnectorTypeOK'
  BY <1>19 DEF UnRef, At
<1>20. ASSUME NEW t \in Threads, Faults(t), UNCHANGED connectorVars
    PROVE  ConnectorTypeOK'
  BY <1>20 DEF Faults
<1>21. ASSUME NEW c \in Clients, CheckStatus(c), UNCHANGED connectorVars
    PROVE  ConnectorTypeOK'
  BY <1>21 DEF CheckStatus, PostSpecial, UseContext, FreeContexts, Unused
<1>22. ASSUME NEW c \in Clients, CheckStatusFails(c), UNCHANGED connectorVars
    PROVE  ConnectorTypeOK'
  BY <1>22 DEF CheckStatusFails, RemoveFromMap, Unused, Tell
<1>23. ASSUME NEW a \in AppThreads, BeginConnect(a)
    PROVE  ConnectorTypeOK'
  BY <1>23 DEF BeginConnect
<1>24. ASSUME NEW a \in AppThreads, PostConnect(a)
    PROVE  ConnectorTypeOK'
  BY <1>24 DEF PostConnect, At
<1>25. ASSUME NEW a \in AppThreads, RemoveUnconnected(a)
    PROVE  ConnectorTypeOK'
  BY <1>25 DEF RemoveUnconnected, RemoveFromMap, Returns
<1>26. ASSUME NEW a \in AppThreads, ConnectAnswered(a)
    PROVE  ConnectorTypeOK'
  <2>1. sem' \in [Clients -> Nat]
    <3>1. CASE cur[a] \in Clients BY <1>26, <3>1 DEF ConnectAnswered, At
    <3>2. CASE cur[a] \notin Clients BY <1>26, <3>2 DEF ConnectAnswered, At
    <3>3. QED BY <3>1, <3>2
  <2>2. returned' \in [Clients -> {"none", "id", "zero"}]
    BY <1>26 DEF ConnectAnswered, Returns
  <2>3. QED BY <2>1, <2>2
<1>27. ASSUME NEW a \in AppThreads, ConnectTimesOut(a)
    PROVE  ConnectorTypeOK'
  BY <1>27 DEF ConnectTimesOut, At, Returns, PostSpecial, UseContext, FreeContexts
<1>28. ASSUME NEW w \in Workers, NEW c \in Clients, ConnectCompleted(w, c)
    PROVE  ConnectorTypeOK'
  BY <1>28 DEF ConnectCompleted, Dequeue, ClientOf
<1>29. ASSUME NEW w \in Workers, NEW c \in Clients, ConnectRefused(w, c)
    PROVE  ConnectorTypeOK'
  BY <1>29 DEF ConnectRefused, ConnectFailed, Dequeue, ClientOf
<1>30. ASSUME NEW w \in Workers, NEW x \in IOContexts, ConnectTimeoutCompleted(w, x)
    PROVE  ConnectorTypeOK'
  <2>1. CASE ctxClient[x] \in Clients BY <1>30, <2>1 DEF ConnectTimeoutCompleted, ConnectFailed, Dequeue, ReleaseContext, ClientOf
  <2>2. CASE ctxClient[x] \notin Clients BY <1>30, <2>2 DEF ConnectTimeoutCompleted, ConnectFailed, Dequeue, ReleaseContext, ClientOf
  <2>3. QED BY <2>1, <2>2
<1>31. ASSUME NEW w \in Workers,
           PostRecv(w, "connectPostRecv", "connectIssueRecv"), UNCHANGED connectorVars
    PROVE  ConnectorTypeOK'
  BY <1>31 DEF PostRecv, At
<1>32. ASSUME NEW w \in Workers,
           IssueRecv(w, "connectIssueRecv", "connectPostSem", "disconnect"), UNCHANGED connectorVars
    PROVE  ConnectorTypeOK'
  BY <1>32 DEF IssueRecv, At
<1>33. ASSUME NEW w \in Workers, PostSem(w)
    PROVE  ConnectorTypeOK'
  <2>1. CASE cur[w] \in Clients BY <1>33, <2>1 DEF PostSem, At
  <2>2. CASE cur[w] \notin Clients BY <1>33, <2>2 DEF PostSem, At
  <2>3. QED BY <2>1, <2>2
<1>34. ASSUME NEW w \in Workers, ReportConnected(w)
    PROVE  ConnectorTypeOK'
  BY <1>34 DEF ReportConnected, At, Tell
<1>35. QED
    BY Next, <1>1, <1>2, <1>3, <1>4, <1>5, <1>6, <1>7, <1>8, <1>9, <1>10, <1>11, <1>12, <1>13,
          <1>14, <1>15, <1>16, <1>17, <1>18, <1>19, <1>20, <1>21, <1>22, <1>23, <1>24, <1>25,
          <1>26, <1>27, <1>28, <1>29, <1>30, <1>31, <1>32, <1>33, <1>34
       DEF Next, ClientNext, ConnectNext, ConnectServer, ConnectCompletion, Kernel, TakeCompletion,
           CheckReleaseStep, ConnectionStep, AppStep, Assist

LEMMA TypeStep == TypeOK /\ [Next]_vars => TypeOK'
<1>1. CASE Next
  BY <1>1, ClientTypes, ContextTypes, ThreadTypes, ConnectorTypes DEF TypeOK
<1>2. CASE UNCHANGED vars
  BY <1>2 DEF vars, poolVars, connVars, ctxVars, connectorVars, TypeOK, ClientTypeOK,
              ContextTypeOK, ThreadTypeOK, ConnectorTypeOK
<1>3. QED BY <1>1, <1>2

LEMMA TypeInit == Init => TypeOK
BY ThreadsDisjoint
   DEF Init, TypeOK, ClientTypeOK, ContextTypeOK, ThreadTypeOK, ConnectorTypeOK, PCs, Threads

-----------------------------------------------------------------------------
(* Each client from its allocation to its first receive. *)

\* A client handed out stays its caller's until the ConnectEx is posted, and one
\* worker's at a time from then on.
LEMMA ConnStep ==
    ASSUME TypeOK, ConnInv, Next
    PROVE  ConnInv'
<1> USE ThreadsDisjoint, CtxDisjoint, NoClientFresh
        DEF TypeOK, ClientTypeOK, ContextTypeOK, ThreadTypeOK, ConnectorTypeOK, Goto, Threads, Ctx,
            poolVars, connVars, ctxVars, connectorVars, ConnInv, AllocInv, FirstInv, Fresh, OnePump,
            PumpIO, PumpOp, FirstPCs, PumpPCs, AnswerPCs, WorkPCs, TouchingPCs
<1>1. ASSUME NEW x \in Ctx, KernelCompletes(x), UNCHANGED connectorVars
    PROVE  ConnInv'
  BY <1>1 DEF KernelCompletes
<1>2. ASSUME NEW x \in Ctx, KernelAborts(x), UNCHANGED connectorVars
    PROVE  ConnInv'
  BY <1>2 DEF KernelAborts
<1>3. ASSUME NEW c \in Clients, GoesStale(c), UNCHANGED connectorVars
    PROVE  ConnInv'
  <2>1. AllocInv'
    BY <1>3 DEF GoesStale, UnstalledPCs
  <2>2. FirstInv'
    BY <1>3 DEF GoesStale, UnstalledPCs
  <2>3. OnePump'
    BY <1>3 DEF GoesStale, UnstalledPCs
  <2>4. PumpIO'
    BY <1>3 DEF GoesStale, UnstalledPCs
  <2>5. PumpOp'
    BY <1>3 DEF GoesStale, UnstalledPCs
  <2>6. QED BY <2>1, <2>2, <2>3, <2>4, <2>5
<1>4. ASSUME NEW w \in Workers, NEW c \in Clients, RecvCompleted(w, c), UNCHANGED connectorVars
    PROVE  ConnInv'
  BY <1>4 DEF RecvCompleted, Dequeue, ClientOf
<1>5. ASSUME NEW w \in Workers, NEW x \in IOContexts,
           SendCompleted(w, x), UNCHANGED connectorVars
    PROVE  ConnInv'
  BY <1>5 DEF SendCompleted, Dequeue, ReleaseContext, ClientOf
<1>6. ASSUME NEW w \in Workers, NEW x \in IOContexts,
           SpecialCompleted(w, x), UNCHANGED connectorVars
    PROVE  ConnInv'
  BY <1>6 DEF SpecialCompleted, Dequeue, ReleaseContext, ClientOf
<1>7. ASSUME NEW w \in Workers, NEW x \in Ctx, DequeueFaults(w, x), UNCHANGED connectorVars
    PROVE  ConnInv'
  <2>1. AllocInv'
    BY <1>7 DEF DequeueFaults, ClientOf
  <2>2. FirstInv'
    BY <1>7 DEF DequeueFaults, ClientOf
  <2>3. OnePump'
    BY <1>7 DEF DequeueFaults, ClientOf
  <2>4. PumpIO'
    BY <1>7 DEF DequeueFaults, ClientOf
  <2>5. PumpOp'
    BY <1>7 DEF DequeueFaults, ClientOf
  <2>6. QED BY <2>1, <2>2, <2>3, <2>4, <2>5
<1>8. ASSUME NEW w \in Workers, OnRecvCompletion(w), UNCHANGED connectorVars
    PROVE  ConnInv'
  <2>1. AllocInv'
    BY <1>8 DEF OnRecvCompletion, At, Tell
  <2>2. FirstInv'
    BY <1>8 DEF OnRecvCompletion, At, Tell
  <2>3. OnePump'
    BY <1>8 DEF OnRecvCompletion, At, Tell
  <2>4. PumpIO'
    BY <1>8 DEF OnRecvCompletion, At, Tell
  <2>5. PumpOp'
    BY <1>8 DEF OnRecvCompletion, At, Tell
  <2>6. QED BY <2>1, <2>2, <2>3, <2>4, <2>5
<1>9. ASSUME NEW w \in Workers,
           PostRecv(w, "postRecv", "issueRecv"), UNCHANGED connectorVars
    PROVE  ConnInv'
  BY <1>9 DEF PostRecv, At
<1>10. ASSUME NEW w \in Workers,
           IssueRecv(w, "issueRecv", "release", "disconnect"), UNCHANGED connectorVars
    PROVE  ConnInv'
  BY <1>10 DEF IssueRecv, At
<1>11. ASSUME NEW w \in Workers, SetDisconnect(w), UNCHANGED connectorVars
    PROVE  ConnInv'
  BY <1>11 DEF SetDisconnect, At
<1>12. ASSUME NEW t \in Workers \cup AppThreads, DecreaseIOCount(t), UNCHANGED connectorVars
    PROVE  ConnInv'
  BY <1>12 DEF DecreaseIOCount, At, Return
<1>13. ASSUME NEW t \in Workers \cup AppThreads, MarkClosed(t), UNCHANGED connectorVars
    PROVE  ConnInv'
  BY <1>13 DEF MarkClosed, At
<1>14. ASSUME NEW t \in Workers \cup AppThreads, ReportClosed(t), UNCHANGED connectorVars
    PROVE  ConnInv'
  <2>1. AllocInv'
    BY <1>14 DEF ReportClosed, At, Return, Tell
  <2>2. FirstInv'
    BY <1>14 DEF ReportClosed, At, Return, Tell
  <2>3. OnePump'
    BY <1>14 DEF ReportClosed, At, Return, Tell
  <2>4. PumpIO'
    BY <1>14 DEF ReportClosed, At, Return, Tell
  <2>5. PumpOp'
    BY <1>14 DEF ReportClosed, At, Return, Tell
  <2>6. QED BY <2>1, <2>2, <2>3, <2>4, <2>5
<1>15. ASSUME NEW t \in Workers \cup AppThreads, RemoveClient(t), UNCHANGED connectorVars
    PROVE  ConnInv'
  BY <1>15 DEF RemoveClient, At, Return, RemoveFromMap
<1>16. ASSUME NEW a \in AppThreads, NEW c \in Clients,
           FindClient(a, c), UNCHANGED connectorVars
    PROVE  ConnInv'
  <2>1. AllocInv'
    BY <1>16 DEF FindClient
  <2>2. FirstInv'
    BY <1>16 DEF FindClient
  <2>3. OnePump'
    BY <1>16 DEF FindClient
  <2>4. PumpIO'
    BY <1>16 DEF FindClient
  <2>5. PumpOp'
    BY <1>16 DEF FindClient
  <2>6. QED BY <2>1, <2>2, <2>3, <2>4, <2>5
<1>17. ASSUME NEW a \in AppThreads, PostSend(a), UNCHANGED connectorVars
    PROVE  ConnInv'
  <2>1. AllocInv'
    <3>1. UNCHANGED <<mem, told, stale, marked, connState, sem, recvOp, cur>>
      BY <1>17 DEF PostSend
    <3>2. \A t \in Threads : pc'[t] \in WorkPCs => pc[t] \in WorkPCs
      BY <1>17 DEF PostSend, At
    <3>3. \A d \in Clients : io'[d] = io[d]
      BY <1>17 DEF PostSend, At, UseContext, FreeContexts
    <3>4. \A x \in IOContexts : ctxType'[x] # "free" =>
              \/ ctxType[x] # "free" /\ ctxClient'[x] = ctxClient[x]
              \/ ctxClient'[x] = cur[a]
      BY <1>17 DEF PostSend, At, UseContext, FreeContexts
    <3>5. \A x \in IOContexts : io'[x] # "none" => ctxType'[x] # "free"
      BY <1>17 DEF PostSend, At, UseContext, FreeContexts
    <3>6. cur[a] \in Clients /\ mem[cur[a]] = "live"
      BY <1>17 DEF PostSend, At
    <3>7. QED BY <3>1, <3>2, <3>3, <3>4, <3>5, <3>6
  <2>2. FirstInv'
    <3>1. UNCHANGED <<told, stale, marked, connState, sem, recvOp, cur>>
      BY <1>17 DEF PostSend
    <3>2. /\ pc[a] = "send" /\ pc'[a] \in {"unref", "release"}
          /\ \A t \in Threads \ {a} : pc'[t] = pc[t]
      BY <1>17 DEF PostSend, At
    <3>3. \A d \in Clients : io'[d] = io[d]
      BY <1>17 DEF PostSend, At, UseContext, FreeContexts
    <3>4. \A x \in IOContexts : ctxType'[x] # "free" =>
              \/ ctxType[x] # "free" /\ ctxClient'[x] = ctxClient[x]
              \/ ctxClient'[x] = cur[a]
      BY <1>17 DEF PostSend, At, UseContext, FreeContexts
    <3>5. QED BY <3>1, <3>2, <3>3, <3>4
  <2>3. OnePump'
    BY <1>17 DEF PostSend, At, UseContext, FreeContexts
  <2>4. PumpIO'
    BY <1>17 DEF PostSend, At, UseContext, FreeContexts
  <2>5. PumpOp'
    BY <1>17 DEF PostSend, At, UseContext, FreeContexts
  <2>6. QED BY <2>1, <2>2, <2>3, <2>4, <2>5
<1>18. ASSUME NEW a \in AppThreads, CloseSocket(a), UNCHANGED connectorVars
    PROVE  ConnInv'
  <2>1. AllocInv'
    BY <1>18 DEF CloseSocket, At, PostSpecial, UseContext, FreeContexts
  <2>2. FirstInv'
    BY <1>18 DEF CloseSocket, At, PostSpecial, UseContext, FreeContexts
  <2>3. OnePump'
    BY <1>18 DEF CloseSocket, At, PostSpecial, UseContext, FreeContexts
  <2>4. PumpIO'
    BY <1>18 DEF CloseSocket, At, PostSpecial, UseContext, FreeContexts
  <2>5. PumpOp'
    BY <1>18 DEF CloseSocket, At, PostSpecial, UseContext, FreeContexts
  <2>6. QED BY <2>1, <2>2, <2>3, <2>4, <2>5
<1>19. ASSUME NEW a \in AppThreads, UnRef(a), UNCHANGED connectorVars
    PROVE  ConnInv'
  BY <1>19 DEF UnRef, At
<1>20. ASSUME NEW t \in Threads, Faults(t), UNCHANGED connectorVars
    PROVE  ConnInv'
  <2>1. AllocInv'
    BY <1>20 DEF Faults
  <2>2. FirstInv'
    BY <1>20 DEF Faults
  <2>3. OnePump'
    BY <1>20 DEF Faults
  <2>4. PumpIO'
    BY <1>20 DEF Faults
  <2>5. PumpOp'
    BY <1>20 DEF Faults
  <2>6. QED BY <2>1, <2>2, <2>3, <2>4, <2>5
<1>21. ASSUME NEW c \in Clients, CheckStatus(c), UNCHANGED connectorVars
    PROVE  ConnInv'
  <2>1. AllocInv'
    BY <1>21 DEF CheckStatus, PostSpecial, UseContext, FreeContexts, Unused
  <2>2. FirstInv'
    BY <1>21 DEF CheckStatus, PostSpecial, UseContext, FreeContexts, Unused
  <2>3. OnePump'
    BY <1>21 DEF CheckStatus, PostSpecial, UseContext, FreeContexts, Unused
  <2>4. PumpIO'
    BY <1>21 DEF CheckStatus, PostSpecial, UseContext, FreeContexts, Unused
  <2>5. PumpOp'
    BY <1>21 DEF CheckStatus, PostSpecial, UseContext, FreeContexts, Unused
  <2>6. QED BY <2>1, <2>2, <2>3, <2>4, <2>5
<1>22. ASSUME NEW c \in Clients, CheckStatusFails(c), UNCHANGED connectorVars
    PROVE  ConnInv'
  <2>1. AllocInv'
    BY <1>22 DEF CheckStatusFails, RemoveFromMap, Unused, Tell
  <2>2. FirstInv'
    BY <1>22 DEF CheckStatusFails, RemoveFromMap, Unused, Tell
  <2>3. OnePump'
    BY <1>22 DEF CheckStatusFails, RemoveFromMap, Unused, Tell
  <2>4. PumpIO'
    BY <1>22 DEF CheckStatusFails, RemoveFromMap, Unused, Tell
  <2>5. PumpOp'
    BY <1>22 DEF CheckStatusFails, RemoveFromMap, Unused, Tell
  <2>6. QED BY <2>1, <2>2, <2>3, <2>4, <2>5
<1>23. ASSUME NEW a \in AppThreads, BeginConnect(a)
    PROVE  ConnInv'
  <2>1. AllocInv'
    BY <1>23 DEF BeginConnect
  <2>2. FirstInv'
    BY <1>23 DEF BeginConnect
  <2>3. OnePump'
    BY <1>23 DEF BeginConnect
  <2>4. PumpIO'
    BY <1>23 DEF BeginConnect
  <2>5. PumpOp'
    BY <1>23 DEF BeginConnect
  <2>6. QED BY <2>1, <2>2, <2>3, <2>4, <2>5
<1>24. ASSUME NEW a \in AppThreads, PostConnect(a)
    PROVE  ConnInv'
  <2>1. AllocInv'
    BY <1>24, SMTT(30) DEF PostConnect, At
  <2>2. FirstInv'
    BY <1>24 DEF PostConnect, At
  <2>3. OnePump'
    BY <1>24 DEF PostConnect, At
  <2>4. PumpIO'
    BY <1>24 DEF PostConnect, At
  <2>5. PumpOp'
    BY <1>24 DEF PostConnect, At
  <2>6. QED BY <2>1, <2>2, <2>3, <2>4, <2>5
<1>25. ASSUME NEW a \in AppThreads, RemoveUnconnected(a)
    PROVE  ConnInv'
  <2>1. AllocInv'
    BY <1>25 DEF RemoveUnconnected, RemoveFromMap, Returns
  <2>2. FirstInv'
    BY <1>25 DEF RemoveUnconnected, RemoveFromMap, Returns
  <2>3. OnePump'
    BY <1>25 DEF RemoveUnconnected, RemoveFromMap, Returns
  <2>4. PumpIO'
    BY <1>25 DEF RemoveUnconnected, RemoveFromMap, Returns
  <2>5. PumpOp'
    BY <1>25 DEF RemoveUnconnected, RemoveFromMap, Returns
  <2>6. QED BY <2>1, <2>2, <2>3, <2>4, <2>5
<1>26. ASSUME NEW a \in AppThreads, ConnectAnswered(a)
    PROVE  ConnInv'
  BY <1>26 DEF ConnectAnswered, At, Returns
<1>27. ASSUME NEW a \in AppThreads, ConnectTimesOut(a)
    PROVE  ConnInv'
  <2>1. AllocInv'
    BY <1>27 DEF ConnectTimesOut, At, Returns, PostSpecial, UseContext, FreeContexts
  <2>2. FirstInv'
    BY <1>27, SMTT(30) DEF ConnectTimesOut, At, Returns, PostSpecial, UseContext, FreeContexts
  <2>3. OnePump'
    BY <1>27 DEF ConnectTimesOut, At, Returns, PostSpecial, UseContext, FreeContexts
  <2>4. PumpIO'
    BY <1>27 DEF ConnectTimesOut, At, Returns, PostSpecial, UseContext, FreeContexts
  <2>5. PumpOp'
    BY <1>27 DEF ConnectTimesOut, At, Returns, PostSpecial, UseContext, FreeContexts
  <2>6. QED BY <2>1, <2>2, <2>3, <2>4, <2>5
<1>28. ASSUME NEW w \in Workers, NEW c \in Clients, ConnectCompleted(w, c)
    PROVE  ConnInv'
  <2>1. AllocInv'
    BY <1>28 DEF ConnectCompleted, Dequeue, ClientOf
  <2>2. FirstInv'
    BY <1>28 DEF ConnectCompleted, Dequeue, ClientOf
  <2>3. OnePump'
    BY <1>28 DEF ConnectCompleted, Dequeue, ClientOf
  <2>4. PumpIO'
    BY <1>28 DEF ConnectCompleted, Dequeue, ClientOf
  <2>5. PumpOp'
    BY <1>28 DEF ConnectCompleted, Dequeue, ClientOf
  <2>6. QED BY <2>1, <2>2, <2>3, <2>4, <2>5
<1>29. ASSUME NEW w \in Workers, NEW c \in Clients, ConnectRefused(w, c)
    PROVE  ConnInv'
  <2>1. AllocInv'
    BY <1>29 DEF ConnectRefused, ConnectFailed, Dequeue, ClientOf
  <2>2. FirstInv'
    BY <1>29 DEF ConnectRefused, ConnectFailed, Dequeue, ClientOf
  <2>3. OnePump'
    BY <1>29 DEF ConnectRefused, ConnectFailed, Dequeue, ClientOf
  <2>4. PumpIO'
    BY <1>29 DEF ConnectRefused, ConnectFailed, Dequeue, ClientOf
  <2>5. PumpOp'
    BY <1>29 DEF ConnectRefused, ConnectFailed, Dequeue, ClientOf
  <2>6. QED BY <2>1, <2>2, <2>3, <2>4, <2>5
<1>30. ASSUME NEW w \in Workers, NEW x \in IOContexts, ConnectTimeoutCompleted(w, x)
    PROVE  ConnInv'
  <2>1. AllocInv'
    BY <1>30 DEF ConnectTimeoutCompleted, ConnectFailed, Dequeue, ReleaseContext, ClientOf
  <2>2. FirstInv'
    BY <1>30 DEF ConnectTimeoutCompleted, ConnectFailed, Dequeue, ReleaseContext, ClientOf
  <2>3. OnePump'
    BY <1>30 DEF ConnectTimeoutCompleted, ConnectFailed, Dequeue, ReleaseContext, ClientOf
  <2>4. PumpIO'
    BY <1>30 DEF ConnectTimeoutCompleted, ConnectFailed, Dequeue, ReleaseContext, ClientOf
  <2>5. PumpOp'
    BY <1>30 DEF ConnectTimeoutCompleted, ConnectFailed, Dequeue, ReleaseContext, ClientOf
  <2>6. QED BY <2>1, <2>2, <2>3, <2>4, <2>5
<1>31. ASSUME NEW w \in Workers,
           PostRecv(w, "connectPostRecv", "connectIssueRecv"), UNCHANGED connectorVars
    PROVE  ConnInv'
  <2>1. AllocInv'
    BY <1>31 DEF PostRecv, At
  <2>2. FirstInv'
    BY <1>31 DEF PostRecv, At
  <2>3. OnePump'
    BY <1>31 DEF PostRecv, At
  <2>4. PumpIO'
    BY <1>31 DEF PostRecv, At
  <2>5. PumpOp'
    BY <1>31 DEF PostRecv, At
  <2>6. QED BY <2>1, <2>2, <2>3, <2>4, <2>5
<1>32. ASSUME NEW w \in Workers,
           IssueRecv(w, "connectIssueRecv", "connectPostSem", "disconnect"), UNCHANGED connectorVars
    PROVE  ConnInv'
  BY <1>32 DEF IssueRecv, At
<1>33. ASSUME NEW w \in Workers, PostSem(w)
    PROVE  ConnInv'
  BY <1>33 DEF PostSem, At
<1>34. ASSUME NEW w \in Workers, ReportConnected(w)
    PROVE  ConnInv'
  BY <1>34 DEF ReportConnected, At, Tell
<1>35. QED
    BY Next, <1>1, <1>2, <1>3, <1>4, <1>5, <1>6, <1>7, <1>8, <1>9, <1>10, <1>11, <1>12, <1>13,
          <1>14, <1>15, <1>16, <1>17, <1>18, <1>19, <1>20, <1>21, <1>22, <1>23, <1>24, <1>25,
          <1>26, <1>27, <1>28, <1>29, <1>30, <1>31, <1>32, <1>33, <1>34
       DEF Next, ClientNext, ConnectNext, ConnectServer, ConnectCompletion, Kernel, TakeCompletion,
           CheckReleaseStep, ConnectionStep, AppStep, Assist

-----------------------------------------------------------------------------
(* The references. *)

LEMMA RefsFinite == \A c \in Clients : IsFiniteSet(RefHolders(c))
<1>1. ASSUME NEW c \in Clients PROVE RefHolders(c) \in SUBSET Threads
  BY DEF RefHolders, Threads
<1>2. QED BY <1>1, FiniteSystem, FS_Subset

\* Whoever holds a reference finds it counted.
LEMMA RefPositive ==
    ASSUME TypeOK, ConnInv, RefInv, NEW a \in AppThreads, pc[a] \in RefPCs
    PROVE  cur[a] \in Clients /\ refCount[cur[a]] > 0
<1>1. cur[a] \in Clients
  BY DEF ConnInv, AllocInv, RefPCs, WorkPCs, TouchingPCs, Threads
<1>2. a \in RefHolders(cur[a])
  BY DEF RefHolders
<1>3. Cardinality(RefHolders(cur[a])) \in Nat /\ Cardinality(RefHolders(cur[a])) # 0
  BY <1>1, <1>2, RefsFinite, FS_CardinalityType, FS_EmptySet
<1>4. QED BY <1>1, <1>3 DEF RefInv, RefCounted

\* A reference taken with its count keeps the count right ...
LEMMA RefTaken ==
    ASSUME ClientTypeOK, RefCounted, NEW c \in Clients, NEW a, a \notin RefHolders(c),
           RefHolders(c)' = RefHolders(c) \cup {a},
           \A d \in Clients \ {c} : RefHolders(d)' = RefHolders(d),
           refCount' = [refCount EXCEPT ![c] = @ + 1]
    PROVE  RefCounted'
<1>1. Cardinality(RefHolders(c)') = Cardinality(RefHolders(c)) + 1
  BY RefsFinite, FS_AddElement
<1>2. QED BY <1>1 DEF RefCounted, ClientTypeOK

\* ... and so does one given back with it.
LEMMA RefGiven ==
    ASSUME ClientTypeOK, RefCounted, NEW c \in Clients, NEW a, a \in RefHolders(c),
           RefHolders(c)' = RefHolders(c) \ {a},
           \A d \in Clients \ {c} : RefHolders(d)' = RefHolders(d),
           refCount' = [refCount EXCEPT ![c] = @ - 1]
    PROVE  RefCounted'
<1>1. Cardinality(RefHolders(c)') = Cardinality(RefHolders(c)) - 1
  BY RefsFinite, FS_RemoveElement
<1>2. QED BY <1>1 DEF RefCounted, ClientTypeOK

\* No client is freed while an application thread has a reference to it.
LEMMA RefKeptStep ==
    ASSUME TypeOK, ConnInv, RefInv, Next
    PROVE  RefKept'
<1> USE ThreadsDisjoint
        DEF TypeOK, ClientTypeOK, ThreadTypeOK, Goto, Threads, poolVars, ConnInv, AllocInv,
            RefInv, RefKept, RefPCs
<1>1. ASSUME NEW x \in Ctx, KernelCompletes(x), UNCHANGED connectorVars
    PROVE  RefKept'
  BY <1>1 DEF KernelCompletes
<1>2. ASSUME NEW x \in Ctx, KernelAborts(x), UNCHANGED connectorVars
    PROVE  RefKept'
  BY <1>2 DEF KernelAborts
<1>3. ASSUME NEW c \in Clients, GoesStale(c), UNCHANGED connectorVars
    PROVE  RefKept'
  BY <1>3 DEF GoesStale
<1>4. ASSUME NEW w \in Workers, NEW c \in Clients, RecvCompleted(w, c), UNCHANGED connectorVars
    PROVE  RefKept'
  BY <1>4 DEF RecvCompleted, Dequeue, ClientOf
<1>5. ASSUME NEW w \in Workers, NEW x \in IOContexts,
           SendCompleted(w, x), UNCHANGED connectorVars
    PROVE  RefKept'
  BY <1>5 DEF SendCompleted, Dequeue, ReleaseContext, ClientOf
<1>6. ASSUME NEW w \in Workers, NEW x \in IOContexts,
           SpecialCompleted(w, x), UNCHANGED connectorVars
    PROVE  RefKept'
  BY <1>6 DEF SpecialCompleted, Dequeue, ReleaseContext, ClientOf
<1>7. ASSUME NEW w \in Workers, NEW x \in Ctx, DequeueFaults(w, x), UNCHANGED connectorVars
    PROVE  RefKept'
  BY <1>7 DEF DequeueFaults, ClientOf
<1>8. ASSUME NEW w \in Workers, OnRecvCompletion(w), UNCHANGED connectorVars
    PROVE  RefKept'
  BY <1>8 DEF OnRecvCompletion, At, Tell
<1>9. ASSUME NEW w \in Workers,
           PostRecv(w, "postRecv", "issueRecv"), UNCHANGED connectorVars
    PROVE  RefKept'
  BY <1>9 DEF PostRecv, At
<1>10. ASSUME NEW w \in Workers,
           IssueRecv(w, "issueRecv", "release", "disconnect"), UNCHANGED connectorVars
    PROVE  RefKept'
  BY <1>10 DEF IssueRecv, At
<1>11. ASSUME NEW w \in Workers, SetDisconnect(w), UNCHANGED connectorVars
    PROVE  RefKept'
  BY <1>11 DEF SetDisconnect, At
<1>12. ASSUME NEW t \in Workers \cup AppThreads, DecreaseIOCount(t), UNCHANGED connectorVars
    PROVE  RefKept'
  BY <1>12 DEF DecreaseIOCount, At, Return
<1>13. ASSUME NEW t \in Workers \cup AppThreads, MarkClosed(t), UNCHANGED connectorVars
    PROVE  RefKept'
  BY <1>13 DEF MarkClosed, At
<1>14. ASSUME NEW t \in Workers \cup AppThreads, ReportClosed(t), UNCHANGED connectorVars
    PROVE  RefKept'
  BY <1>14 DEF ReportClosed, At, Return, Tell
<1>15. ASSUME NEW t \in Workers \cup AppThreads, RemoveClient(t), UNCHANGED connectorVars
    PROVE  RefKept'
  BY <1>15, RefPositive DEF RemoveClient, At, Return, RemoveFromMap
<1>16. ASSUME NEW a \in AppThreads, NEW c \in Clients,
           FindClient(a, c), UNCHANGED connectorVars
    PROVE  RefKept'
  BY <1>16 DEF FindClient
<1>17. ASSUME NEW a \in AppThreads, PostSend(a), UNCHANGED connectorVars
    PROVE  RefKept'
  BY <1>17 DEF PostSend, At, UseContext, FreeContexts
<1>18. ASSUME NEW a \in AppThreads, CloseSocket(a), UNCHANGED connectorVars
    PROVE  RefKept'
  BY <1>18 DEF CloseSocket, At, PostSpecial, UseContext, FreeContexts
<1>19. ASSUME NEW a \in AppThreads, UnRef(a), UNCHANGED connectorVars
    PROVE  RefKept'
  BY <1>19 DEF UnRef, At
<1>20. ASSUME NEW t \in Threads, Faults(t), UNCHANGED connectorVars
    PROVE  RefKept'
  BY <1>20 DEF Faults
<1>21. ASSUME NEW c \in Clients, CheckStatus(c), UNCHANGED connectorVars
    PROVE  RefKept'
  BY <1>21, RefPositive DEF CheckStatus, PostSpecial, UseContext, FreeContexts, Unused
<1>22. ASSUME NEW c \in Clients, CheckStatusFails(c), UNCHANGED connectorVars
    PROVE  RefKept'
  BY <1>22, RefPositive DEF CheckStatusFails, RemoveFromMap, Unused, Tell
<1>23. ASSUME NEW a \in AppThreads, BeginConnect(a)
    PROVE  RefKept'
  BY <1>23 DEF BeginConnect
<1>24. ASSUME NEW a \in AppThreads, PostConnect(a)
    PROVE  RefKept'
  BY <1>24 DEF PostConnect, At
<1>25. ASSUME NEW a \in AppThreads, RemoveUnconnected(a)
    PROVE  RefKept'
  BY <1>25, RefPositive DEF RemoveUnconnected, RemoveFromMap, Returns
<1>26. ASSUME NEW a \in AppThreads, ConnectAnswered(a)
    PROVE  RefKept'
  BY <1>26 DEF ConnectAnswered, At, Returns
<1>27. ASSUME NEW a \in AppThreads, ConnectTimesOut(a)
    PROVE  RefKept'
  BY <1>27 DEF ConnectTimesOut, At, Returns, PostSpecial, UseContext, FreeContexts
<1>28. ASSUME NEW w \in Workers, NEW c \in Clients, ConnectCompleted(w, c)
    PROVE  RefKept'
  BY <1>28 DEF ConnectCompleted, Dequeue, ClientOf
<1>29. ASSUME NEW w \in Workers, NEW c \in Clients, ConnectRefused(w, c)
    PROVE  RefKept'
  BY <1>29 DEF ConnectRefused, ConnectFailed, Dequeue, ClientOf
<1>30. ASSUME NEW w \in Workers, NEW x \in IOContexts, ConnectTimeoutCompleted(w, x)
    PROVE  RefKept'
  BY <1>30 DEF ConnectTimeoutCompleted, ConnectFailed, Dequeue, ReleaseContext, ClientOf
<1>31. ASSUME NEW w \in Workers,
           PostRecv(w, "connectPostRecv", "connectIssueRecv"), UNCHANGED connectorVars
    PROVE  RefKept'
  BY <1>31 DEF PostRecv, At
<1>32. ASSUME NEW w \in Workers,
           IssueRecv(w, "connectIssueRecv", "connectPostSem", "disconnect"), UNCHANGED connectorVars
    PROVE  RefKept'
  BY <1>32 DEF IssueRecv, At
<1>33. ASSUME NEW w \in Workers, PostSem(w)
    PROVE  RefKept'
  BY <1>33 DEF PostSem, At
<1>34. ASSUME NEW w \in Workers, ReportConnected(w)
    PROVE  RefKept'
  BY <1>34 DEF ReportConnected, At, Tell
<1>35. QED
    BY Next, <1>1, <1>2, <1>3, <1>4, <1>5, <1>6, <1>7, <1>8, <1>9, <1>10, <1>11, <1>12, <1>13,
          <1>14, <1>15, <1>16, <1>17, <1>18, <1>19, <1>20, <1>21, <1>22, <1>23, <1>24, <1>25,
          <1>26, <1>27, <1>28, <1>29, <1>30, <1>31, <1>32, <1>33, <1>34
       DEF Next, ClientNext, ConnectNext, ConnectServer, ConnectCompletion, Kernel, TakeCompletion,
           CheckReleaseStep, ConnectionStep, AppStep, Assist

\* Each reference is taken and given back together with its count.
LEMMA RefCountedStep ==
    ASSUME TypeOK, ConnInv, RefInv, Next
    PROVE  RefCounted'
<1> DEFINE Kept == refCount' = refCount /\ \A d \in Clients : RefHolders(d)' = RefHolders(d)
<1> USE ThreadsDisjoint, NoClientFresh
        DEF TypeOK, ThreadTypeOK, ContextTypeOK, RefInv, Goto, Threads, Ctx, poolVars, RefHolders, RefPCs
<1>1. ASSUME NEW x \in Ctx, KernelCompletes(x), UNCHANGED connectorVars
    PROVE  Kept
  BY <1>1 DEF KernelCompletes
<1>2. ASSUME NEW x \in Ctx, KernelAborts(x), UNCHANGED connectorVars
    PROVE  Kept
  BY <1>2 DEF KernelAborts
<1>3. ASSUME NEW c \in Clients, GoesStale(c), UNCHANGED connectorVars
    PROVE  Kept
  BY <1>3 DEF GoesStale
<1>4. ASSUME NEW w \in Workers, NEW c \in Clients, RecvCompleted(w, c), UNCHANGED connectorVars
    PROVE  Kept
  BY <1>4 DEF RecvCompleted, Dequeue, ClientOf
<1>5. ASSUME NEW w \in Workers, NEW x \in IOContexts,
           SendCompleted(w, x), UNCHANGED connectorVars
    PROVE  Kept
  BY <1>5 DEF SendCompleted, Dequeue, ReleaseContext, ClientOf
<1>6. ASSUME NEW w \in Workers, NEW x \in IOContexts,
           SpecialCompleted(w, x), UNCHANGED connectorVars
    PROVE  Kept
  BY <1>6 DEF SpecialCompleted, Dequeue, ReleaseContext, ClientOf
<1>7. ASSUME NEW w \in Workers, NEW x \in Ctx, DequeueFaults(w, x), UNCHANGED connectorVars
    PROVE  Kept
  BY <1>7 DEF DequeueFaults, ClientOf
<1>8. ASSUME NEW w \in Workers, OnRecvCompletion(w), UNCHANGED connectorVars
    PROVE  Kept
  BY <1>8 DEF OnRecvCompletion, At, Tell
<1>9. ASSUME NEW w \in Workers,
           PostRecv(w, "postRecv", "issueRecv"), UNCHANGED connectorVars
    PROVE  Kept
  BY <1>9 DEF PostRecv, At
<1>10. ASSUME NEW w \in Workers,
           IssueRecv(w, "issueRecv", "release", "disconnect"), UNCHANGED connectorVars
    PROVE  Kept
  BY <1>10 DEF IssueRecv, At
<1>11. ASSUME NEW w \in Workers, SetDisconnect(w), UNCHANGED connectorVars
    PROVE  Kept
  BY <1>11 DEF SetDisconnect, At
<1>12. ASSUME NEW t \in Workers \cup AppThreads, DecreaseIOCount(t), UNCHANGED connectorVars
    PROVE  Kept
  BY <1>12 DEF DecreaseIOCount, At, Return
<1>13. ASSUME NEW t \in Workers \cup AppThreads, MarkClosed(t), UNCHANGED connectorVars
    PROVE  Kept
  BY <1>13 DEF MarkClosed, At
<1>14. ASSUME NEW t \in Workers \cup AppThreads, ReportClosed(t), UNCHANGED connectorVars
    PROVE  Kept
  BY <1>14 DEF ReportClosed, At, Return, Tell
<1>15. ASSUME NEW t \in Workers \cup AppThreads, RemoveClient(t), UNCHANGED connectorVars
    PROVE  Kept
  BY <1>15 DEF RemoveClient, At, Return, RemoveFromMap
<1>16. ASSUME NEW a \in AppThreads, NEW c \in Clients,
           FindClient(a, c), UNCHANGED connectorVars
    PROVE  RefCounted'
  <2>1. RefHolders(c)' = RefHolders(c) \cup {a} /\ a \notin RefHolders(c)
    BY <1>16 DEF FindClient
  <2>2. \A d \in Clients \ {c} : RefHolders(d)' = RefHolders(d)
    BY <1>16 DEF FindClient
  <2>3. refCount' = [refCount EXCEPT ![c] = @ + 1]
    BY <1>16 DEF FindClient
  <2> HIDE DEF RefHolders
  <2>4. QED BY <2>1, <2>2, <2>3, RefTaken
<1>17. ASSUME NEW a \in AppThreads, PostSend(a), UNCHANGED connectorVars
    PROVE  Kept
  BY <1>17 DEF PostSend, At, UseContext, FreeContexts
<1>18. ASSUME NEW a \in AppThreads, CloseSocket(a), UNCHANGED connectorVars
    PROVE  Kept
  BY <1>18 DEF CloseSocket, At, PostSpecial, UseContext, FreeContexts
<1>19. ASSUME NEW a \in AppThreads, UnRef(a), UNCHANGED connectorVars
    PROVE  RefCounted'
  <2>1. PICK c \in Clients : c = cur[a] /\ a \in RefHolders(c)
    BY <1>19, RefPositive DEF UnRef, At
  <2>2. RefHolders(c)' = RefHolders(c) \ {a}
    BY <1>19, <2>1, NoClientFresh DEF UnRef, At
  <2>3. \A d \in Clients \ {c} : RefHolders(d)' = RefHolders(d)
    BY <1>19, <2>1 DEF UnRef, At
  <2>4. refCount' = [refCount EXCEPT ![c] = @ - 1]
    BY <1>19, <2>1 DEF UnRef
  <2> HIDE DEF RefHolders
  <2>5. QED BY <2>1, <2>2, <2>3, <2>4, RefGiven
<1>20. ASSUME NEW t \in Threads, Faults(t), UNCHANGED connectorVars
    PROVE  Kept
  BY <1>20, RefPositive DEF Faults, RefKept, TouchingPCs
<1>21. ASSUME NEW c \in Clients, CheckStatus(c), UNCHANGED connectorVars
    PROVE  Kept
  BY <1>21 DEF CheckStatus, PostSpecial, UseContext, FreeContexts, Unused
<1>22. ASSUME NEW c \in Clients, CheckStatusFails(c), UNCHANGED connectorVars
    PROVE  Kept
  BY <1>22 DEF CheckStatusFails, RemoveFromMap, Unused, Tell
<1>23. ASSUME NEW a \in AppThreads, BeginConnect(a)
    PROVE  RefCounted'
  <2>1. PICK c \in Clients : /\ mem[c] = "unused" /\ refCount' = [refCount EXCEPT ![c] = 1]
                             /\ cur' = [cur EXCEPT ![a] = c]
    BY <1>23 DEF BeginConnect
  <2>2. RefHolders(c) = {}
    BY <2>1 DEF RefKept
  <2>3. refCount[c] = 0
    BY <2>2, FS_EmptySet DEF RefCounted
  <2>4. RefHolders(c)' = RefHolders(c) \cup {a} /\ a \notin RefHolders(c)
    BY <1>23, <2>1, <2>2 DEF BeginConnect
  <2>5. \A d \in Clients \ {c} : RefHolders(d)' = RefHolders(d)
    BY <1>23, <2>1 DEF BeginConnect
  <2>6. refCount' = [refCount EXCEPT ![c] = @ + 1]
    BY <2>1, <2>3 DEF ClientTypeOK
  <2> HIDE DEF RefHolders
  <2>7. QED BY <2>4, <2>5, <2>6, RefTaken
<1>24. ASSUME NEW a \in AppThreads, PostConnect(a)
    PROVE  RefCounted'
  <2>1. CASE pc'[a] = "waitConnect"
    <3>1. Kept
      BY <1>24, <2>1 DEF PostConnect, At
    <3>2. QED BY <3>1 DEF RefCounted
  <2>2. CASE pc'[a] # "waitConnect"
    <3>1. PICK c \in Clients : c = cur[a] /\ a \in RefHolders(c)
      BY <1>24, RefPositive DEF PostConnect, At
    <3>2. RefHolders(c)' = RefHolders(c) \ {a}
      BY <1>24, <2>2, <3>1 DEF PostConnect, At
    <3>3. \A d \in Clients \ {c} : RefHolders(d)' = RefHolders(d)
      BY <1>24, <2>2, <3>1 DEF PostConnect, At
    <3>4. refCount' = [refCount EXCEPT ![c] = @ - 1]
      BY <1>24, <2>2, <3>1 DEF PostConnect, At
    <3> HIDE DEF RefHolders
    <3>5. QED BY <3>1, <3>2, <3>3, <3>4, RefGiven
  <2>3. QED BY <2>1, <2>2
<1>25. ASSUME NEW a \in AppThreads, RemoveUnconnected(a)
    PROVE  Kept
  BY <1>25 DEF RemoveUnconnected, RemoveFromMap, Returns
<1>26. ASSUME NEW a \in AppThreads, ConnectAnswered(a)
    PROVE  Kept
  BY <1>26 DEF ConnectAnswered, At, Returns
<1>27. ASSUME NEW a \in AppThreads, ConnectTimesOut(a)
    PROVE  Kept
  BY <1>27 DEF ConnectTimesOut, At, Returns, PostSpecial, UseContext, FreeContexts
<1>28. ASSUME NEW w \in Workers, NEW c \in Clients, ConnectCompleted(w, c)
    PROVE  Kept
  BY <1>28 DEF ConnectCompleted, Dequeue, ClientOf
<1>29. ASSUME NEW w \in Workers, NEW c \in Clients, ConnectRefused(w, c)
    PROVE  Kept
  BY <1>29 DEF ConnectRefused, ConnectFailed, Dequeue, ClientOf
<1>30. ASSUME NEW w \in Workers, NEW x \in IOContexts, ConnectTimeoutCompleted(w, x)
    PROVE  Kept
  BY <1>30 DEF ConnectTimeoutCompleted, ConnectFailed, Dequeue, ReleaseContext, ClientOf
<1>31. ASSUME NEW w \in Workers,
           PostRecv(w, "connectPostRecv", "connectIssueRecv"), UNCHANGED connectorVars
    PROVE  Kept
  BY <1>31 DEF PostRecv, At
<1>32. ASSUME NEW w \in Workers,
           IssueRecv(w, "connectIssueRecv", "connectPostSem", "disconnect"), UNCHANGED connectorVars
    PROVE  Kept
  BY <1>32 DEF IssueRecv, At
<1>33. ASSUME NEW w \in Workers, PostSem(w)
    PROVE  Kept
  BY <1>33 DEF PostSem, At
<1>34. ASSUME NEW w \in Workers, ReportConnected(w)
    PROVE  Kept
  BY <1>34 DEF ReportConnected, At, Tell
<1>35. Kept => RefCounted'
    BY DEF RefCounted
<1>36. QED
    BY Next, <1>35, <1>1, <1>2, <1>3, <1>4, <1>5, <1>6, <1>7, <1>8, <1>9, <1>10, <1>11, <1>12,
          <1>13, <1>14, <1>15, <1>16, <1>17, <1>18, <1>19, <1>20, <1>21, <1>22, <1>23, <1>24,
          <1>25, <1>26, <1>27, <1>28, <1>29, <1>30, <1>31, <1>32, <1>33, <1>34
       DEF Next, ClientNext, ConnectNext, ConnectServer, ConnectCompletion, Kernel, TakeCompletion,
           CheckReleaseStep, ConnectionStep, AppStep, Assist

LEMMA RefIInvStep == RefIInv /\ [Next]_vars => RefIInv'
<1>1. CASE Next
  BY <1>1, TypeStep, ConnStep, RefKeptStep, RefCountedStep DEF RefIInv, RefInv
<1>2. ASSUME RefIInv, UNCHANGED vars
      PROVE  RefIInv'
  <2>1. TypeOK'
    BY <1>2, TypeStep DEF RefIInv
  <2>2. ConnInv'
    BY <1>2 DEF RefIInv, vars, poolVars, connVars, ctxVars, connectorVars, ConnInv, AllocInv, FirstInv,
                Fresh, OnePump, PumpIO, PumpOp
  <2>3. RefKept' /\ \A c \in Clients : RefHolders(c)' = RefHolders(c)
    BY <1>2 DEF RefIInv, vars, poolVars, RefInv, RefKept, RefHolders
  <2>4. RefCounted'
    BY <1>2, <2>3 DEF RefIInv, vars, poolVars, RefInv, RefCounted
  <2>5. QED BY <2>1, <2>2, <2>3, <2>4 DEF RefIInv, RefInv
<1>3. QED BY <1>1, <1>2

LEMMA RefIInvInit == Init => RefIInv
<1> SUFFICES ASSUME Init PROVE RefIInv
  OBVIOUS
<1>1. TypeOK
  BY TypeInit
<1>2. ConnInv
  BY ThreadsDisjoint DEF Init, Threads, Ctx, ConnInv, AllocInv, FirstInv, Fresh, OnePump, PumpIO,
         PumpOp, FirstPCs, PumpPCs, AnswerPCs, WorkPCs, TouchingPCs
<1>3. RefKept /\ \A c \in Clients : RefHolders(c) = {}
  BY ThreadsDisjoint DEF Init, Threads, RefKept, RefHolders, RefPCs
<1>4. RefCounted
  BY <1>3, FS_EmptySet DEF Init, RefCounted
<1>5. QED BY <1>1, <1>2, <1>3, <1>4 DEF RefIInv, RefInv

\* What a client goes through on the way to a connection, and who refers to it
\* meanwhile, whatever fails.
THEOREM RefIInvCorrect == Spec => []RefIInv
<1>1. RefIInv /\ [Next]_vars => RefIInv'
  BY RefIInvStep
<1>2. QED BY <1>1, RefIInvInit, PTL DEF Spec

\* The caller of ConnectServer, and every application thread that sends or closes,
\* keeps the client it works on, whatever the workers and checkStatus do and
\* whatever fails.
THEOREM ReferencesProtect == Spec => []RefProtects
<1>1. RefIInv => RefProtects
  BY RefPositive DEF RefIInv, RefInv, RefKept, RefProtects
<1>2. QED BY <1>1, RefIInvCorrect, PTL

-----------------------------------------------------------------------------
(* mPendingIO, as long as no post to the port fails. *)

\* Operations and threads are finite, so are the holders of a count.
LEMMA HoldersFinite == \A c \in Clients : IsFiniteSet(Holders(c))
<1>1. ASSUME NEW c \in Clients PROVE Holders(c) \in SUBSET (Ctx \cup Threads)
  BY DEF Holders
<1>2. IsFiniteSet(Ctx \cup Threads)
  BY FiniteSystem, FS_Union
<1>3. QED BY <1>1, <1>2, FS_Subset

\* Comparing counts with holders: a step leaves both alone ...
LEMMA HoldersKept ==
    ASSUME IOCounted,
           \A d \in Clients : Counts(d)' =>
               Counts(d) /\ pendingIO'[d] = pendingIO[d] /\ Holders(d)' = Holders(d)
    PROVE  IOCounted'
BY DEF IOCounted

\* ... adds one holder and one count ...
LEMMA HolderAdded ==
    ASSUME IOCounted, ClientTypeOK, \A d \in Clients : Counts(d)' => Counts(d),
           NEW c \in Clients, NEW h, h \notin Holders(c),
           Holders(c)' = Holders(c) \cup {h},
           \A d \in Clients \ {c} : Holders(d)' = Holders(d),
           pendingIO' = [pendingIO EXCEPT ![c] = @ + 1]
    PROVE  IOCounted'
<1>1. Cardinality(Holders(c)') = Cardinality(Holders(c)) + 1
  BY HoldersFinite, FS_AddElement
<1>2. QED BY <1>1 DEF IOCounted, ClientTypeOK

\* ... takes one of each away ...
LEMMA HolderRemoved ==
    ASSUME IOCounted, ClientTypeOK, \A d \in Clients : Counts(d)' => Counts(d),
           NEW c \in Clients, NEW h, h \in Holders(c),
           Holders(c)' = Holders(c) \ {h},
           \A d \in Clients \ {c} : Holders(d)' = Holders(d),
           pendingIO' = [pendingIO EXCEPT ![c] = @ - 1]
    PROVE  IOCounted'
<1>1. Cardinality(Holders(c)') = Cardinality(Holders(c)) - 1
  BY HoldersFinite, FS_RemoveElement
<1>2. QED BY <1>1 DEF IOCounted, ClientTypeOK

\* ... or hands the count over.
LEMMA HolderSwapped ==
    ASSUME IOCounted, \A d \in Clients : Counts(d)' => Counts(d),
           NEW c \in Clients, NEW h, NEW g, h \in Holders(c), g \notin Holders(c),
           Holders(c)' = (Holders(c) \ {h}) \cup {g},
           \A d \in Clients \ {c} : Holders(d)' = Holders(d),
           UNCHANGED pendingIO
    PROVE  IOCounted'
<1>1. /\ IsFiniteSet(Holders(c) \ {h})
      /\ Cardinality(Holders(c) \ {h}) = Cardinality(Holders(c)) - 1
      /\ Cardinality(Holders(c)) \in Nat
  BY HoldersFinite, FS_RemoveElement, FS_CardinalityType
<1>2. Cardinality(Holders(c)') = Cardinality(Holders(c) \ {h}) + 1
  BY <1>1, FS_AddElement
<1>3. Cardinality(Holders(c)') = Cardinality(Holders(c))
  BY <1>1, <1>2
<1>4. QED BY <1>3 DEF IOCounted

\* Every step moves counts and holders together.
LEMMA CountStep ==
    ASSUME ~SpecialPostFails, RefIInv, IOCounted, Next
    PROVE  IOCounted'
<1> DEFINE Kept == \A d \in Clients : Counts(d)' =>
                       Counts(d) /\ pendingIO'[d] = pendingIO[d] /\ Holders(d)' = Holders(d)
<1> USE ThreadsDisjoint, CtxDisjoint, NoClientFresh
        DEF RefIInv, TypeOK, ClientTypeOK, ContextTypeOK, ThreadTypeOK, Goto, Threads, Ctx, poolVars,
            connVars, ctxVars, connectorVars, ConnInv, AllocInv, FirstInv, PumpIO, PumpOp, WorkPCs,
            TouchingPCs, FirstPCs, PumpPCs, Counts, Holders, OpHolds, ThreadHolds, HoldingPCs,
            ClientOf, TypeOf
<1>1. ASSUME NEW x \in Ctx, KernelCompletes(x), UNCHANGED connectorVars
    PROVE  Kept
  BY <1>1 DEF KernelCompletes
<1>2. ASSUME NEW x \in Ctx, KernelAborts(x), UNCHANGED connectorVars
    PROVE  Kept
  BY <1>2 DEF KernelAborts
<1>3. ASSUME NEW c \in Clients, GoesStale(c), UNCHANGED connectorVars
    PROVE  Kept
  BY <1>3 DEF GoesStale
<1>4. ASSUME NEW w \in Workers, NEW c \in Clients, RecvCompleted(w, c), UNCHANGED connectorVars
    PROVE  IOCounted'
  <2>1. c \in Holders(c) /\ w \notin Holders(c) /\ Holders(c)' = (Holders(c) \ {c}) \cup {w}
    BY <1>4 DEF RecvCompleted, Dequeue, ClientOf
  <2>2. \A d \in Clients \ {c} : Holders(d)' = Holders(d)
    BY <1>4 DEF RecvCompleted, Dequeue, ClientOf
  <2>3. UNCHANGED pendingIO /\ \A d \in Clients : Counts(d)' => Counts(d)
    BY <1>4 DEF RecvCompleted, Dequeue, ClientOf
  <2> HIDE DEF Holders, Counts
  <2>4. QED BY <2>1, <2>2, <2>3, HolderSwapped
<1>5. ASSUME NEW w \in Workers, NEW x \in IOContexts,
           SendCompleted(w, x), UNCHANGED connectorVars
    PROVE  IOCounted'
  <2>1. PICK c \in Clients : c = ctxClient[x]
    BY <1>5 DEF SendCompleted, TypeOf
  <2>2. x \in Holders(c) /\ w \notin Holders(c) /\ Holders(c)' = (Holders(c) \ {x}) \cup {w}
    BY <1>5, <2>1 DEF SendCompleted, Dequeue, ReleaseContext, ClientOf
  <2>3. \A d \in Clients \ {c} : Holders(d)' = Holders(d)
    BY <1>5, <2>1 DEF SendCompleted, Dequeue, ReleaseContext, ClientOf
  <2>4. UNCHANGED pendingIO /\ \A d \in Clients : Counts(d)' => Counts(d)
    BY <1>5 DEF SendCompleted, Dequeue, ReleaseContext, ClientOf
  <2> HIDE DEF Holders, Counts
  <2>5. QED BY <2>2, <2>3, <2>4, HolderSwapped
<1>6. ASSUME NEW w \in Workers, NEW x \in IOContexts,
           SpecialCompleted(w, x), UNCHANGED connectorVars
    PROVE  IOCounted'
  <2>1. PICK c \in Clients : c = ctxClient[x]
    BY <1>6 DEF SpecialCompleted, TypeOf
  <2>2. x \in Holders(c) /\ w \notin Holders(c) /\ Holders(c)' = (Holders(c) \ {x}) \cup {w}
    BY <1>6, <2>1 DEF SpecialCompleted, Dequeue, ReleaseContext, ClientOf
  <2>3. \A d \in Clients \ {c} : Holders(d)' = Holders(d)
    BY <1>6, <2>1 DEF SpecialCompleted, Dequeue, ReleaseContext, ClientOf
  <2>4. UNCHANGED pendingIO /\ \A d \in Clients : Counts(d)' => Counts(d)
    BY <1>6 DEF SpecialCompleted, Dequeue, ReleaseContext, ClientOf
  <2> HIDE DEF Holders, Counts
  <2>5. QED BY <2>2, <2>3, <2>4, HolderSwapped
<1>7. ASSUME NEW w \in Workers, NEW x \in Ctx, DequeueFaults(w, x), UNCHANGED connectorVars
    PROVE  Kept
  BY <1>7 DEF DequeueFaults, ClientOf
<1>8. ASSUME NEW w \in Workers, OnRecvCompletion(w), UNCHANGED connectorVars
    PROVE  Kept
  BY <1>8 DEF OnRecvCompletion, At, Tell
<1>9. ASSUME NEW w \in Workers,
           PostRecv(w, "postRecv", "issueRecv"), UNCHANGED connectorVars
    PROVE  IOCounted'
  <2>1. PICK c \in Clients : c = cur[w]
    BY <1>9 DEF PostRecv, At
  <2>2. c \notin Holders(c) /\ Holders(c)' = Holders(c) \cup {c}
    BY <1>9, <2>1 DEF PostRecv, At
  <2>3. \A d \in Clients \ {c} : Holders(d)' = Holders(d)
    BY <1>9, <2>1 DEF PostRecv, At
  <2>4. pendingIO' = [pendingIO EXCEPT ![c] = @ + 1] /\ \A d \in Clients : Counts(d)' => Counts(d)
    BY <1>9, <2>1 DEF PostRecv, At
  <2> HIDE DEF Holders, Counts
  <2>5. QED BY <2>2, <2>3, <2>4, HolderAdded
<1>10. ASSUME NEW w \in Workers,
           IssueRecv(w, "issueRecv", "release", "disconnect"), UNCHANGED connectorVars
    PROVE  IOCounted'
  <2>1. PICK c \in Clients : c = cur[w]
    BY <1>10 DEF IssueRecv, At
  <2>2. \A d \in Clients : Counts(d)' => Counts(d)
    BY <1>10 DEF IssueRecv, At
  <2>3. CASE pc'[w] = "release"
    <3>1. UNCHANGED pendingIO /\ \A d \in Clients : Holders(d)' = Holders(d)
      BY <1>10, <2>3 DEF IssueRecv, At
    <3> HIDE DEF Holders, Counts
    <3>2. QED BY <2>2, <3>1, HoldersKept
  <2>4. CASE pc'[w] # "release"
    <3>1. c \in Holders(c) /\ Holders(c)' = Holders(c) \ {c}
      BY <1>10, <2>1, <2>4 DEF IssueRecv, At
    <3>2. \A d \in Clients \ {c} : Holders(d)' = Holders(d)
      BY <1>10, <2>1, <2>4 DEF IssueRecv, At
    <3>3. pendingIO' = [pendingIO EXCEPT ![c] = @ - 1]
      BY <1>10, <2>1, <2>4 DEF IssueRecv, At
    <3> HIDE DEF Holders, Counts
    <3>4. QED BY <2>2, <3>1, <3>2, <3>3, HolderRemoved
  <2>5. QED BY <2>3, <2>4
<1>11. ASSUME NEW w \in Workers, SetDisconnect(w), UNCHANGED connectorVars
    PROVE  Kept
  BY <1>11 DEF SetDisconnect, At
<1>12. ASSUME NEW t \in Workers \cup AppThreads, DecreaseIOCount(t), UNCHANGED connectorVars
    PROVE  IOCounted'
  <2>1. PICK c \in Clients : c = cur[t]
    BY <1>12 DEF DecreaseIOCount, At, Return
  <2>2. t \in Holders(c) /\ Holders(c)' = Holders(c) \ {t}
    BY <1>12, <2>1 DEF DecreaseIOCount, At, Return
  <2>3. \A d \in Clients \ {c} : Holders(d)' = Holders(d)
    BY <1>12, <2>1 DEF DecreaseIOCount, At, Return
  <2>4. pendingIO' = [pendingIO EXCEPT ![c] = @ - 1] /\ \A d \in Clients : Counts(d)' => Counts(d)
    BY <1>12, <2>1 DEF DecreaseIOCount, At, Return
  <2> HIDE DEF Holders, Counts
  <2>5. QED BY <2>2, <2>3, <2>4, HolderRemoved
<1>13. ASSUME NEW t \in Workers \cup AppThreads, MarkClosed(t), UNCHANGED connectorVars
    PROVE  Kept
  BY <1>13 DEF MarkClosed, At
<1>14. ASSUME NEW t \in Workers \cup AppThreads, ReportClosed(t), UNCHANGED connectorVars
    PROVE  Kept
  BY <1>14 DEF ReportClosed, At, Return, Tell
<1>15. ASSUME NEW t \in Workers \cup AppThreads, RemoveClient(t), UNCHANGED connectorVars
    PROVE  Kept
  BY <1>15 DEF RemoveClient, At, Return, RemoveFromMap
<1>16. ASSUME NEW a \in AppThreads, NEW c \in Clients,
           FindClient(a, c), UNCHANGED connectorVars
    PROVE  Kept
  BY <1>16 DEF FindClient
<1>17. ASSUME NEW a \in AppThreads, PostSend(a), UNCHANGED connectorVars
    PROVE  IOCounted'
  <2>1. PICK c \in Clients : c = cur[a]
    BY <1>17 DEF PostSend, At
  <2>2. \A d \in Clients : Counts(d)' => Counts(d)
    BY <1>17 DEF PostSend, At
  <2>3. ASSUME NEW x \in FreeContexts, UseContext(x, c, "send", "kernel"), Goto(a, "unref"),
               pendingIO' = [pendingIO EXCEPT ![c] = @ + 1]
        PROVE  IOCounted'
    <3>1. x \notin Holders(c) /\ Holders(c)' = Holders(c) \cup {x}
      BY <1>17, <2>1, <2>3 DEF PostSend, At, UseContext, FreeContexts
    <3>2. \A d \in Clients \ {c} : Holders(d)' = Holders(d)
      BY <1>17, <2>1, <2>3 DEF PostSend, At, UseContext, FreeContexts
    <3> HIDE DEF Holders, Counts
    <3>3. QED BY <2>2, <2>3, <3>1, <3>2, HolderAdded
  <2>4. ASSUME Goto(a, "release"), UNCHANGED <<io, ctxVars>>,
               pendingIO' = [pendingIO EXCEPT ![c] = @ + 1]
        PROVE  IOCounted'
    <3>1. a \notin Holders(c) /\ Holders(c)' = Holders(c) \cup {a}
      BY <1>17, <2>1, <2>4 DEF PostSend, At
    <3>2. \A d \in Clients \ {c} : Holders(d)' = Holders(d)
      BY <1>17, <2>1, <2>4 DEF PostSend, At
    <3> HIDE DEF Holders, Counts
    <3>3. QED BY <2>2, <2>4, <3>1, <3>2, HolderAdded
  <2>5. ASSUME Goto(a, "unref"), UNCHANGED <<io, ctxVars, pendingIO>>
        PROVE  IOCounted'
    <3>1. \A d \in Clients : Holders(d)' = Holders(d)
      BY <1>17, <2>5 DEF PostSend, At
    <3> HIDE DEF Holders, Counts
    <3>2. QED BY <2>2, <2>5, <3>1, HoldersKept
  <2> HIDE DEF Goto, ctxVars, IOCounted
  <2>6. QED BY <1>17, <2>1, <2>3, <2>4, <2>5 DEF PostSend
<1>18. ASSUME NEW a \in AppThreads, CloseSocket(a), UNCHANGED connectorVars
    PROVE  IOCounted'
  <2>1. PICK c \in Clients : c = cur[a]
    BY <1>18 DEF CloseSocket, At
  <2>2. PICK x \in FreeContexts : UseContext(x, c, "closed", "done")
    BY <1>18, <2>1 DEF CloseSocket, PostSpecial, PostSpecialFails
  <2>3. x \notin Holders(c) /\ Holders(c)' = Holders(c) \cup {x}
    BY <1>18, <2>1, <2>2 DEF CloseSocket, At, PostSpecial, PostSpecialFails, UseContext, FreeContexts
  <2>4. \A d \in Clients \ {c} : Holders(d)' = Holders(d)
    BY <1>18, <2>1, <2>2 DEF CloseSocket, At, PostSpecial, PostSpecialFails, UseContext, FreeContexts
  <2>5. pendingIO' = [pendingIO EXCEPT ![c] = @ + 1] /\ \A d \in Clients : Counts(d)' => Counts(d)
    BY <1>18, <2>1 DEF CloseSocket, At, PostSpecial, PostSpecialFails
  <2> HIDE DEF Holders, Counts
  <2>6. QED BY <2>3, <2>4, <2>5, HolderAdded
<1>19. ASSUME NEW a \in AppThreads, UnRef(a), UNCHANGED connectorVars
    PROVE  Kept
  BY <1>19 DEF UnRef, At
<1>20. ASSUME NEW t \in Threads, Faults(t), UNCHANGED connectorVars
    PROVE  Kept
  BY <1>20 DEF Faults
<1>21. ASSUME NEW c \in Clients, CheckStatus(c), UNCHANGED connectorVars
    PROVE  IOCounted'
  <2>1. \A d \in Clients : Counts(d)' => Counts(d)
    BY <1>21 DEF CheckStatus, Unused
  <2>2. CASE ~stale[c]
    <3>1. UNCHANGED pendingIO /\ \A d \in Clients : Holders(d)' = Holders(d)
      BY <1>21, <2>2 DEF CheckStatus
    <3> HIDE DEF Holders, Counts
    <3>2. QED BY <2>1, <3>1, HoldersKept
  <2>3. CASE stale[c]
    <3>1. PICK x \in FreeContexts : UseContext(x, c, "timeout", "done")
      BY <1>21, <2>3 DEF CheckStatus, PostSpecial
    <3>2. x \notin Holders(c) /\ Holders(c)' = Holders(c) \cup {x}
      BY <1>21, <2>3, <3>1 DEF CheckStatus, UseContext, FreeContexts
    <3>3. \A d \in Clients \ {c} : Holders(d)' = Holders(d)
      BY <1>21, <2>3, <3>1 DEF CheckStatus, UseContext, FreeContexts
    <3>4. pendingIO' = [pendingIO EXCEPT ![c] = @ + 1]
      BY <1>21, <2>3 DEF CheckStatus, PostSpecial
    <3> HIDE DEF Holders, Counts
    <3>5. QED BY <2>1, <3>2, <3>3, <3>4, HolderAdded
  <2>4. QED BY <2>2, <2>3
<1>22. ASSUME NEW c \in Clients, CheckStatusFails(c), UNCHANGED connectorVars
    PROVE  Kept
  BY <1>22 DEF CheckStatusFails, PostSpecialFails
<1>23. ASSUME NEW a \in AppThreads, BeginConnect(a)
    PROVE  Kept
  BY <1>23 DEF BeginConnect
<1>24. ASSUME NEW a \in AppThreads, PostConnect(a)
    PROVE  IOCounted'
  <2>1. CASE pc'[a] = "waitConnect"
    <3>1. PICK c \in Clients : c = cur[a]
      BY <1>24 DEF PostConnect, At
    <3>2. c \notin Holders(c) /\ Holders(c)' = Holders(c) \cup {c}
      BY <1>24, <2>1, <3>1 DEF PostConnect, At
    <3>3. \A d \in Clients \ {c} : Holders(d)' = Holders(d)
      BY <1>24, <2>1, <3>1 DEF PostConnect, At
    <3>4. pendingIO' = [pendingIO EXCEPT ![c] = @ + 1] /\ \A d \in Clients : Counts(d)' => Counts(d)
      BY <1>24, <2>1, <3>1 DEF PostConnect, At
    <3> HIDE DEF Holders, Counts
    <3>5. QED BY <3>2, <3>3, <3>4, HolderAdded
  <2>2. CASE pc'[a] # "waitConnect"
    <3>1. UNCHANGED pendingIO /\ \A d \in Clients : Holders(d)' = Holders(d)
      BY <1>24, <2>2 DEF PostConnect, At
    <3>2. \A d \in Clients : Counts(d)' => Counts(d)
      BY <1>24 DEF PostConnect
    <3> HIDE DEF Holders, Counts
    <3>3. QED BY <3>1, <3>2, HoldersKept
  <2>3. QED BY <2>1, <2>2
<1>25. ASSUME NEW a \in AppThreads, RemoveUnconnected(a)
    PROVE  Kept
  BY <1>25 DEF RemoveUnconnected, RemoveFromMap, Returns
<1>26. ASSUME NEW a \in AppThreads, ConnectAnswered(a)
    PROVE  Kept
  BY <1>26 DEF ConnectAnswered, At, Returns
<1>27. ASSUME NEW a \in AppThreads, ConnectTimesOut(a)
    PROVE  IOCounted'
  <2>1. PICK c \in Clients : c = cur[a]
    BY <1>27 DEF ConnectTimesOut, At
  <2>2. PICK x \in FreeContexts : UseContext(x, c, "connectTimeout", "done")
    BY <1>27, <2>1 DEF ConnectTimesOut, PostSpecial, PostSpecialFails
  <2>3. x \notin Holders(c) /\ Holders(c)' = Holders(c) \cup {x}
    BY <1>27, <2>1, <2>2 DEF ConnectTimesOut, At, PostSpecial, PostSpecialFails, UseContext, FreeContexts
  <2>4. \A d \in Clients \ {c} : Holders(d)' = Holders(d)
    BY <1>27, <2>1, <2>2 DEF ConnectTimesOut, At, PostSpecial, PostSpecialFails, UseContext, FreeContexts
  <2>5. pendingIO' = [pendingIO EXCEPT ![c] = @ + 1] /\ \A d \in Clients : Counts(d)' => Counts(d)
    BY <1>27, <2>1 DEF ConnectTimesOut, At, PostSpecial, PostSpecialFails
  <2> HIDE DEF Holders, Counts
  <2>6. QED BY <2>3, <2>4, <2>5, HolderAdded
<1>28. ASSUME NEW w \in Workers, NEW c \in Clients, ConnectCompleted(w, c)
    PROVE  IOCounted'
  <2>1. c \in Holders(c) /\ w \notin Holders(c) /\ Holders(c)' = (Holders(c) \ {c}) \cup {w}
    BY <1>28 DEF ConnectCompleted, Dequeue, ClientOf
  <2>2. \A d \in Clients \ {c} : Holders(d)' = Holders(d)
    BY <1>28 DEF ConnectCompleted, Dequeue, ClientOf
  <2>3. UNCHANGED pendingIO /\ \A d \in Clients : Counts(d)' => Counts(d)
    BY <1>28 DEF ConnectCompleted, Dequeue, ClientOf
  <2> HIDE DEF Holders, Counts
  <2>4. QED BY <2>1, <2>2, <2>3, HolderSwapped
<1>29. ASSUME NEW w \in Workers, NEW c \in Clients, ConnectRefused(w, c)
    PROVE  IOCounted'
  <2>1. c \in Holders(c) /\ w \notin Holders(c) /\ Holders(c)' = (Holders(c) \ {c}) \cup {w}
    BY <1>29 DEF ConnectRefused, ConnectFailed, Dequeue, ClientOf
  <2>2. \A d \in Clients \ {c} : Holders(d)' = Holders(d)
    BY <1>29 DEF ConnectRefused, ConnectFailed, Dequeue, ClientOf
  <2>3. UNCHANGED pendingIO /\ \A d \in Clients : Counts(d)' => Counts(d)
    BY <1>29 DEF ConnectRefused, ConnectFailed, Dequeue, ClientOf
  <2> HIDE DEF Holders, Counts
  <2>4. QED BY <2>1, <2>2, <2>3, HolderSwapped
<1>30. ASSUME NEW w \in Workers, NEW x \in IOContexts, ConnectTimeoutCompleted(w, x)
    PROVE  IOCounted'
  <2>1. PICK c \in Clients : c = ctxClient[x]
    BY <1>30 DEF ConnectTimeoutCompleted, TypeOf
  <2>2. x \in Holders(c) /\ w \notin Holders(c) /\ Holders(c)' = (Holders(c) \ {x}) \cup {w}
    BY <1>30, <2>1 DEF ConnectTimeoutCompleted, ConnectFailed, Dequeue, ReleaseContext, ClientOf
  <2>3. \A d \in Clients \ {c} : Holders(d)' = Holders(d)
    BY <1>30, <2>1 DEF ConnectTimeoutCompleted, ConnectFailed, Dequeue, ReleaseContext, ClientOf
  <2>4. UNCHANGED pendingIO /\ \A d \in Clients : Counts(d)' => Counts(d)
    BY <1>30 DEF ConnectTimeoutCompleted, ConnectFailed, Dequeue, ReleaseContext, ClientOf
  <2> HIDE DEF Holders, Counts
  <2>5. QED BY <2>2, <2>3, <2>4, HolderSwapped
<1>31. ASSUME NEW w \in Workers,
           PostRecv(w, "connectPostRecv", "connectIssueRecv"), UNCHANGED connectorVars
    PROVE  IOCounted'
  <2>1. PICK c \in Clients : c = cur[w]
    BY <1>31 DEF PostRecv, At
  <2>2. c \notin Holders(c) /\ Holders(c)' = Holders(c) \cup {c}
    BY <1>31, <2>1 DEF PostRecv, At
  <2>3. \A d \in Clients \ {c} : Holders(d)' = Holders(d)
    BY <1>31, <2>1 DEF PostRecv, At
  <2>4. pendingIO' = [pendingIO EXCEPT ![c] = @ + 1] /\ \A d \in Clients : Counts(d)' => Counts(d)
    BY <1>31, <2>1 DEF PostRecv, At
  <2> HIDE DEF Holders, Counts
  <2>5. QED BY <2>2, <2>3, <2>4, HolderAdded
<1>32. ASSUME NEW w \in Workers,
           IssueRecv(w, "connectIssueRecv", "connectPostSem", "disconnect"), UNCHANGED connectorVars
    PROVE  IOCounted'
  <2>1. PICK c \in Clients : c = cur[w]
    BY <1>32 DEF IssueRecv, At
  <2>2. \A d \in Clients : Counts(d)' => Counts(d)
    BY <1>32 DEF IssueRecv, At
  <2>3. CASE pc'[w] = "connectPostSem"
    <3>1. UNCHANGED pendingIO /\ \A d \in Clients : Holders(d)' = Holders(d)
      BY <1>32, <2>3 DEF IssueRecv, At
    <3> HIDE DEF Holders, Counts
    <3>2. QED BY <2>2, <3>1, HoldersKept
  <2>4. CASE pc'[w] # "connectPostSem"
    <3>1. c \in Holders(c) /\ Holders(c)' = Holders(c) \ {c}
      BY <1>32, <2>1, <2>4 DEF IssueRecv, At
    <3>2. \A d \in Clients \ {c} : Holders(d)' = Holders(d)
      BY <1>32, <2>1, <2>4 DEF IssueRecv, At
    <3>3. pendingIO' = [pendingIO EXCEPT ![c] = @ - 1]
      BY <1>32, <2>1, <2>4 DEF IssueRecv, At
    <3> HIDE DEF Holders, Counts
    <3>4. QED BY <2>2, <3>1, <3>2, <3>3, HolderRemoved
  <2>5. QED BY <2>3, <2>4
<1>33. ASSUME NEW w \in Workers, PostSem(w)
    PROVE  Kept
  BY <1>33 DEF PostSem, At
<1>34. ASSUME NEW w \in Workers, ReportConnected(w)
    PROVE  Kept
  BY <1>34 DEF ReportConnected, At, Tell
<1>35. Kept => IOCounted'
  <2> HIDE DEF Holders, Counts
  <2>1. QED BY HoldersKept
<1>36. QED
    BY Next, <1>35, <1>1, <1>2, <1>3, <1>4, <1>5, <1>6, <1>7, <1>8, <1>9, <1>10, <1>11, <1>12,
          <1>13, <1>14, <1>15, <1>16, <1>17, <1>18, <1>19, <1>20, <1>21, <1>22, <1>23, <1>24,
          <1>25, <1>26, <1>27, <1>28, <1>29, <1>30, <1>31, <1>32, <1>33, <1>34
       DEF Next, ClientNext, ConnectNext, ConnectServer, ConnectCompletion, Kernel, TakeCompletion,
           CheckReleaseStep, ConnectionStep, AppStep, Assist

\* Every step keeps the count, and the invariant of the references, as they are.
LEMMA CountIInvStep == ~SpecialPostFails /\ CountIInv /\ [Next]_vars => CountIInv'
<1>1. CASE Next
  BY <1>1, CountStep, RefIInvStep DEF CountIInv
<1>2. ASSUME CountIInv, UNCHANGED vars
      PROVE  CountIInv'
  <2>1. RefIInv'
    BY <1>2, RefIInvStep DEF CountIInv
  <2>2. UNCHANGED pendingIO /\ \A d \in Clients : Holders(d)' = Holders(d)
    BY <1>2 DEF vars, ctxVars, connVars, Holders, OpHolds, ThreadHolds, ClientOf, TypeOf
  <2>3. \A d \in Clients : Counts(d)' => Counts(d)
    BY <1>2 DEF vars, poolVars, Counts
  <2>4. QED BY <1>2, <2>1, <2>2, <2>3, HoldersKept DEF CountIInv
<1>3. QED BY <1>1, <1>2

\* Nothing is counted before the first ConnectServer.
LEMMA CountIInvInit == Init => CountIInv
<1> SUFFICES ASSUME Init PROVE CountIInv
  OBVIOUS
<1>1. \A c \in Clients : Holders(c) = {}
  BY DEF Init, Holders, OpHolds, ThreadHolds, HoldingPCs, Ctx, Threads
<1>2. IOCounted
  BY <1>1, FS_EmptySet DEF Init, IOCounted
<1>3. QED BY <1>2, RefIInvInit DEF CountIInv

\* mPendingIO is, for every client in the table, the number of its operations in
\* flight plus the threads that still owe it a CheckRelease, through the connect
\* time-out and the late answer.
THEOREM PendingIOExact ==
    ASSUME ~SpecialPostFails
    PROVE  Spec => []CountExact
<1>1. CountIInv /\ [Next]_vars => CountIInv'
  BY CountIInvStep
<1>2. CountIInv => CountExact
  BY DEF CountIInv, IOCounted, Counts, CountExact
<1>3. QED BY <1>1, <1>2, CountIInvInit, PTL DEF Spec

-----------------------------------------------------------------------------
(* The answer to ConnectServer, as long as no post to the port fails. *)

\* With two counts out, none is the last.
LEMMA TwoHolders ==
    ASSUME IOCounted, NEW c \in Clients, mem[c] = "live",
           NEW h \in Holders(c), NEW g \in Holders(c), h # g
    PROVE  pendingIO[c] # 1
<1>1. /\ IsFiniteSet(Holders(c) \ {h})
      /\ Cardinality(Holders(c) \ {h}) = Cardinality(Holders(c)) - 1
  BY HoldersFinite, FS_RemoveElement
<1>2. Cardinality(Holders(c) \ {h}) # 0
  BY <1>1, FS_EmptySet
<1>3. pendingIO[c] = Cardinality(Holders(c)) /\ Cardinality(Holders(c)) \in Nat
  BY HoldersFinite, FS_CardinalityType DEF IOCounted, Counts
<1>4. QED BY <1>1, <1>2, <1>3

\* Nobody ends a connection that is being made: the ConnectEx, then its worker,
\* holds a count.
LEMMA EndStep ==
    ASSUME ~SpecialPostFails, CountIInv, EndInv, Next
    PROVE  EndInv'
<1> DEFINE Kept == \A d \in Clients : Connecting(d)' =>
                      /\ Connecting(d) /\ mem'[d] = mem[d] /\ marked'[d] = marked[d]
                      /\ "closed" \in told'[d] => "closed" \in told[d]
                      /\ \A u \in Threads : pc'[u] \in EndPCs /\ cur'[u] = d
                                                => pc[u] \in EndPCs /\ cur[u] = d
<1> USE ThreadsDisjoint, CtxDisjoint, NoClientFresh
        DEF CountIInv, RefIInv, TypeOK, ClientTypeOK, ContextTypeOK, ThreadTypeOK, Goto, Threads, Ctx,
            poolVars, connVars, ctxVars, connectorVars, ConnInv, AllocInv, FirstInv, Fresh, PumpIO,
            PumpOp, WorkPCs, TouchingPCs, FirstPCs, PumpPCs, AnswerPCs, ConnectPCs, EndPCs,
            ConnectPosted, Connecting, EndInv
<1>1. ASSUME NEW x \in Ctx, KernelCompletes(x), UNCHANGED connectorVars
    PROVE  Kept
  BY <1>1 DEF KernelCompletes
<1>2. ASSUME NEW x \in Ctx, KernelAborts(x), UNCHANGED connectorVars
    PROVE  Kept
  BY <1>2 DEF KernelAborts
<1>3. ASSUME NEW c \in Clients, GoesStale(c), UNCHANGED connectorVars
    PROVE  Kept
  BY <1>3 DEF GoesStale
<1>4. ASSUME NEW w \in Workers, NEW c \in Clients, RecvCompleted(w, c), UNCHANGED connectorVars
    PROVE  Kept
  BY <1>4 DEF RecvCompleted, Dequeue, ClientOf
<1>5. ASSUME NEW w \in Workers, NEW x \in IOContexts,
           SendCompleted(w, x), UNCHANGED connectorVars
    PROVE  Kept
  BY <1>5 DEF SendCompleted, Dequeue, ReleaseContext, ClientOf
<1>6. ASSUME NEW w \in Workers, NEW x \in IOContexts,
           SpecialCompleted(w, x), UNCHANGED connectorVars
    PROVE  Kept
  BY <1>6 DEF SpecialCompleted, Dequeue, ReleaseContext, ClientOf
<1>7. ASSUME NEW w \in Workers, NEW x \in Ctx, DequeueFaults(w, x), UNCHANGED connectorVars
    PROVE  Kept
  BY <1>7 DEF DequeueFaults, ClientOf
<1>8. ASSUME NEW w \in Workers, OnRecvCompletion(w), UNCHANGED connectorVars
    PROVE  Kept
  BY <1>8 DEF OnRecvCompletion, At, Tell
<1>9. ASSUME NEW w \in Workers,
           PostRecv(w, "postRecv", "issueRecv"), UNCHANGED connectorVars
    PROVE  Kept
  BY <1>9 DEF PostRecv, At
<1>10. ASSUME NEW w \in Workers,
           IssueRecv(w, "issueRecv", "release", "disconnect"), UNCHANGED connectorVars
    PROVE  Kept
  BY <1>10 DEF IssueRecv, At
<1>11. ASSUME NEW w \in Workers, SetDisconnect(w), UNCHANGED connectorVars
    PROVE  Kept
  BY <1>11 DEF SetDisconnect, At
<1>12. ASSUME NEW t \in Workers \cup AppThreads, DecreaseIOCount(t), UNCHANGED connectorVars
    PROVE  Kept
  <2>1. PICK c \in Clients : c = cur[t] /\ mem[c] = "live"
    BY <1>12 DEF DecreaseIOCount, At
  <2>2. Connecting(c) => pendingIO[c] # 1
    <3>1. SUFFICES ASSUME Connecting(c) PROVE pendingIO[c] # 1
      OBVIOUS
    <3>2. t \in Holders(c)
      BY <1>12, <2>1 DEF DecreaseIOCount, At, Holders, ThreadHolds, HoldingPCs
    <3>3. PICK h \in Holders(c) : h # t
      <4>1. CASE ConnectPosted(c)
        BY <4>1 DEF Holders, OpHolds, ClientOf, TypeOf
      <4>2. CASE \E w \in Workers : pc[w] \in ConnectPCs /\ cur[w] = c
        BY <1>12, <4>2 DEF DecreaseIOCount, At, Holders, ThreadHolds, HoldingPCs
      <4>3. QED BY <3>1, <4>1, <4>2
    <3>4. QED BY <2>1, <3>2, <3>3, TwoHolders
  <2>3. Kept
    BY <1>12, <2>1, <2>2 DEF DecreaseIOCount, At, Return
  <2>4. QED BY <2>3
<1>13. ASSUME NEW t \in Workers \cup AppThreads, MarkClosed(t), UNCHANGED connectorVars
    PROVE  Kept
  BY <1>13 DEF MarkClosed, At
<1>14. ASSUME NEW t \in Workers \cup AppThreads, ReportClosed(t), UNCHANGED connectorVars
    PROVE  Kept
  BY <1>14 DEF ReportClosed, At, Return, Tell
<1>15. ASSUME NEW t \in Workers \cup AppThreads, RemoveClient(t), UNCHANGED connectorVars
    PROVE  Kept
  BY <1>15 DEF RemoveClient, At, Return, RemoveFromMap
<1>16. ASSUME NEW a \in AppThreads, NEW c \in Clients,
           FindClient(a, c), UNCHANGED connectorVars
    PROVE  Kept
  BY <1>16 DEF FindClient
<1>17. ASSUME NEW a \in AppThreads, PostSend(a), UNCHANGED connectorVars
    PROVE  Kept
  BY <1>17 DEF PostSend, At, UseContext, FreeContexts
<1>18. ASSUME NEW a \in AppThreads, CloseSocket(a), UNCHANGED connectorVars
    PROVE  Kept
  BY <1>18 DEF CloseSocket, At, PostSpecial, UseContext, FreeContexts
<1>19. ASSUME NEW a \in AppThreads, UnRef(a), UNCHANGED connectorVars
    PROVE  Kept
  BY <1>19 DEF UnRef, At
<1>20. ASSUME NEW t \in Threads, Faults(t), UNCHANGED connectorVars
    PROVE  Kept
  BY <1>20 DEF Faults
<1>21. ASSUME NEW c \in Clients, CheckStatus(c), UNCHANGED connectorVars
    PROVE  Kept
  BY <1>21 DEF CheckStatus, PostSpecial, UseContext, FreeContexts, Unused
<1>22. ASSUME NEW c \in Clients, CheckStatusFails(c), UNCHANGED connectorVars
    PROVE  Kept
  BY <1>22 DEF CheckStatusFails, PostSpecialFails
<1>23. ASSUME NEW a \in AppThreads, BeginConnect(a)
    PROVE  Kept
  BY <1>23 DEF BeginConnect
<1>24. ASSUME NEW a \in AppThreads, PostConnect(a)
    PROVE  EndInv'
  <2>1. PICK c \in Clients : c = cur[a] /\ mem[c] = "live"
    BY <1>24 DEF PostConnect, At
  <2>2. /\ UNCHANGED <<mem, marked, told, cur>>
        /\ \A u \in Threads : pc'[u] \in EndPCs => pc[u] \in EndPCs /\ u # a
    BY <1>24 DEF PostConnect, At
  <2>3. /\ ~marked[c] /\ "closed" \notin told[c]
        /\ \A u \in Threads : pc[u] \in EndPCs => cur[u] # c
    BY <1>24, <2>1 DEF PostConnect, At
  <2>4. \A d \in Clients \ {c} : Connecting(d)' => Connecting(d)
    BY <1>24, <2>1 DEF PostConnect, At
  <2>5. QED BY <2>1, <2>2, <2>3, <2>4
<1>25. ASSUME NEW a \in AppThreads, RemoveUnconnected(a)
    PROVE  Kept
  <2>1. PICK c \in Clients : c = cur[a] /\ ~Connecting(c)'
    BY <1>25 DEF RemoveUnconnected
  <2>2. \A d \in Clients \ {c} : mem'[d] = mem[d] /\ marked'[d] = marked[d]
    BY <1>25, <2>1 DEF RemoveUnconnected, RemoveFromMap
  <2>3. \A d \in Clients : Connecting(d)' => Connecting(d)
    BY <1>25 DEF RemoveUnconnected
  <2>4. QED BY <1>25, <2>1, <2>2, <2>3 DEF RemoveUnconnected
<1>26. ASSUME NEW a \in AppThreads, ConnectAnswered(a)
    PROVE  Kept
  BY <1>26 DEF ConnectAnswered, At, Returns
<1>27. ASSUME NEW a \in AppThreads, ConnectTimesOut(a)
    PROVE  Kept
  BY <1>27 DEF ConnectTimesOut, At, Returns, PostSpecial, UseContext, FreeContexts
<1>28. ASSUME NEW w \in Workers, NEW c \in Clients, ConnectCompleted(w, c)
    PROVE  Kept
  BY <1>28 DEF ConnectCompleted, Dequeue, ClientOf
<1>29. ASSUME NEW w \in Workers, NEW c \in Clients, ConnectRefused(w, c)
    PROVE  Kept
  BY <1>29 DEF ConnectRefused, ConnectFailed, Dequeue, ClientOf
<1>30. ASSUME NEW w \in Workers, NEW x \in IOContexts, ConnectTimeoutCompleted(w, x)
    PROVE  Kept
  BY <1>30 DEF ConnectTimeoutCompleted, ConnectFailed, Dequeue, ReleaseContext, ClientOf
<1>31. ASSUME NEW w \in Workers,
           PostRecv(w, "connectPostRecv", "connectIssueRecv"), UNCHANGED connectorVars
    PROVE  Kept
  BY <1>31 DEF PostRecv, At
<1>32. ASSUME NEW w \in Workers,
           IssueRecv(w, "connectIssueRecv", "connectPostSem", "disconnect"), UNCHANGED connectorVars
    PROVE  Kept
  BY <1>32 DEF IssueRecv, At
<1>33. ASSUME NEW w \in Workers, PostSem(w)
    PROVE  Kept
  BY <1>33 DEF PostSem, At
<1>34. ASSUME NEW w \in Workers, ReportConnected(w)
    PROVE  Kept
  BY <1>34 DEF ReportConnected, At, Tell
<1>35. Kept => EndInv'
    OBVIOUS
<1>36. QED
    BY ZenonT(60), Next, <1>35, <1>1, <1>2, <1>3, <1>4, <1>5, <1>6, <1>7, <1>8, <1>9, <1>10, <1>11, <1>12,
          <1>13, <1>14, <1>15, <1>16, <1>17, <1>18, <1>19, <1>20, <1>21, <1>22, <1>23, <1>24,
          <1>25, <1>26, <1>27, <1>28, <1>29, <1>30, <1>31, <1>32, <1>33, <1>34
       DEF Next, ClientNext, ConnectNext, ConnectServer, ConnectCompletion, Kernel, TakeCompletion,
           CheckReleaseStep, ConnectionStep, AppStep, Assist

\* Only the thread that allocated a client waits on it.
LEMMA CallerStep ==
    ASSUME RefIInv, OneCaller, Next
    PROVE  OneCaller'
<1> DEFINE Kept == \A b \in AppThreads : pc'[b] = "waitConnect" =>
                       pc[b] = "waitConnect" /\ cur'[b] = cur[b]
<1> USE ThreadsDisjoint
        DEF RefIInv, TypeOK, ThreadTypeOK, ContextTypeOK, Goto, Threads, Ctx, OneCaller
<1>1. ASSUME NEW x \in Ctx, KernelCompletes(x), UNCHANGED connectorVars
    PROVE  Kept
  BY <1>1 DEF KernelCompletes
<1>2. ASSUME NEW x \in Ctx, KernelAborts(x), UNCHANGED connectorVars
    PROVE  Kept
  BY <1>2 DEF KernelAborts
<1>3. ASSUME NEW c \in Clients, GoesStale(c), UNCHANGED connectorVars
    PROVE  Kept
  BY <1>3 DEF GoesStale
<1>4. ASSUME NEW w \in Workers, NEW c \in Clients, RecvCompleted(w, c), UNCHANGED connectorVars
    PROVE  Kept
  BY <1>4 DEF RecvCompleted, Dequeue, ClientOf
<1>5. ASSUME NEW w \in Workers, NEW x \in IOContexts,
           SendCompleted(w, x), UNCHANGED connectorVars
    PROVE  Kept
  BY <1>5 DEF SendCompleted, Dequeue, ReleaseContext, ClientOf
<1>6. ASSUME NEW w \in Workers, NEW x \in IOContexts,
           SpecialCompleted(w, x), UNCHANGED connectorVars
    PROVE  Kept
  BY <1>6 DEF SpecialCompleted, Dequeue, ReleaseContext, ClientOf
<1>7. ASSUME NEW w \in Workers, NEW x \in Ctx, DequeueFaults(w, x), UNCHANGED connectorVars
    PROVE  Kept
  BY <1>7 DEF DequeueFaults, ClientOf
<1>8. ASSUME NEW w \in Workers, OnRecvCompletion(w), UNCHANGED connectorVars
    PROVE  Kept
  BY <1>8 DEF OnRecvCompletion, At, Tell
<1>9. ASSUME NEW w \in Workers,
           PostRecv(w, "postRecv", "issueRecv"), UNCHANGED connectorVars
    PROVE  Kept
  BY <1>9 DEF PostRecv, At
<1>10. ASSUME NEW w \in Workers,
           IssueRecv(w, "issueRecv", "release", "disconnect"), UNCHANGED connectorVars
    PROVE  Kept
  BY <1>10 DEF IssueRecv, At
<1>11. ASSUME NEW w \in Workers, SetDisconnect(w), UNCHANGED connectorVars
    PROVE  Kept
  BY <1>11 DEF SetDisconnect, At
<1>12. ASSUME NEW t \in Workers \cup AppThreads, DecreaseIOCount(t), UNCHANGED connectorVars
    PROVE  Kept
  BY <1>12 DEF DecreaseIOCount, At, Return
<1>13. ASSUME NEW t \in Workers \cup AppThreads, MarkClosed(t), UNCHANGED connectorVars
    PROVE  Kept
  BY <1>13 DEF MarkClosed, At
<1>14. ASSUME NEW t \in Workers \cup AppThreads, ReportClosed(t), UNCHANGED connectorVars
    PROVE  Kept
  BY <1>14 DEF ReportClosed, At, Return, Tell
<1>15. ASSUME NEW t \in Workers \cup AppThreads, RemoveClient(t), UNCHANGED connectorVars
    PROVE  Kept
  BY <1>15 DEF RemoveClient, At, Return, RemoveFromMap
<1>16. ASSUME NEW a \in AppThreads, NEW c \in Clients,
           FindClient(a, c), UNCHANGED connectorVars
    PROVE  Kept
  BY <1>16 DEF FindClient
<1>17. ASSUME NEW a \in AppThreads, PostSend(a), UNCHANGED connectorVars
    PROVE  Kept
  BY <1>17 DEF PostSend, At, UseContext, FreeContexts
<1>18. ASSUME NEW a \in AppThreads, CloseSocket(a), UNCHANGED connectorVars
    PROVE  Kept
  BY <1>18 DEF CloseSocket, At, PostSpecial, UseContext, FreeContexts
<1>19. ASSUME NEW a \in AppThreads, UnRef(a), UNCHANGED connectorVars
    PROVE  Kept
  BY <1>19 DEF UnRef, At
<1>20. ASSUME NEW t \in Threads, Faults(t), UNCHANGED connectorVars
    PROVE  Kept
  BY <1>20 DEF Faults
<1>21. ASSUME NEW c \in Clients, CheckStatus(c), UNCHANGED connectorVars
    PROVE  Kept
  BY <1>21 DEF CheckStatus, PostSpecial, UseContext, FreeContexts, Unused
<1>22. ASSUME NEW c \in Clients, CheckStatusFails(c), UNCHANGED connectorVars
    PROVE  Kept
  BY <1>22 DEF CheckStatusFails, RemoveFromMap, Unused, Tell
<1>23. ASSUME NEW a \in AppThreads, BeginConnect(a)
    PROVE  Kept
  BY <1>23 DEF BeginConnect
<1>24. ASSUME NEW a \in AppThreads, PostConnect(a)
    PROVE  OneCaller'
  <2>1. \A b \in AppThreads \ {a} : pc[b] = "waitConnect" => cur[b] # cur[a]
    BY <1>24 DEF PostConnect, At, ConnInv, FirstInv, FirstPCs, WorkPCs, TouchingPCs
  <2>2. \A b \in AppThreads \ {a} : pc'[b] = pc[b] /\ cur'[b] = cur[b]
    BY <1>24 DEF PostConnect, At
  <2>3. UNCHANGED cur
    BY <1>24 DEF PostConnect
  <2>4. QED BY <2>1, <2>2, <2>3
<1>25. ASSUME NEW a \in AppThreads, RemoveUnconnected(a)
    PROVE  Kept
  BY <1>25 DEF RemoveUnconnected, RemoveFromMap, Returns
<1>26. ASSUME NEW a \in AppThreads, ConnectAnswered(a)
    PROVE  Kept
  BY <1>26 DEF ConnectAnswered, At, Returns
<1>27. ASSUME NEW a \in AppThreads, ConnectTimesOut(a)
    PROVE  Kept
  BY <1>27 DEF ConnectTimesOut, At, Returns, PostSpecial, UseContext, FreeContexts
<1>28. ASSUME NEW w \in Workers, NEW c \in Clients, ConnectCompleted(w, c)
    PROVE  Kept
  BY <1>28 DEF ConnectCompleted, Dequeue, ClientOf
<1>29. ASSUME NEW w \in Workers, NEW c \in Clients, ConnectRefused(w, c)
    PROVE  Kept
  BY <1>29 DEF ConnectRefused, ConnectFailed, Dequeue, ClientOf
<1>30. ASSUME NEW w \in Workers, NEW x \in IOContexts, ConnectTimeoutCompleted(w, x)
    PROVE  Kept
  BY <1>30 DEF ConnectTimeoutCompleted, ConnectFailed, Dequeue, ReleaseContext, ClientOf
<1>31. ASSUME NEW w \in Workers,
           PostRecv(w, "connectPostRecv", "connectIssueRecv"), UNCHANGED connectorVars
    PROVE  Kept
  BY <1>31 DEF PostRecv, At
<1>32. ASSUME NEW w \in Workers,
           IssueRecv(w, "connectIssueRecv", "connectPostSem", "disconnect"), UNCHANGED connectorVars
    PROVE  Kept
  BY <1>32 DEF IssueRecv, At
<1>33. ASSUME NEW w \in Workers, PostSem(w)
    PROVE  Kept
  BY <1>33 DEF PostSem, At
<1>34. ASSUME NEW w \in Workers, ReportConnected(w)
    PROVE  Kept
  BY <1>34 DEF ReportConnected, At, Tell
<1>35. Kept => OneCaller'
    OBVIOUS
<1>36. QED
    BY Next, <1>35, <1>1, <1>2, <1>3, <1>4, <1>5, <1>6, <1>7, <1>8, <1>9, <1>10, <1>11, <1>12,
          <1>13, <1>14, <1>15, <1>16, <1>17, <1>18, <1>19, <1>20, <1>21, <1>22, <1>23, <1>24,
          <1>25, <1>26, <1>27, <1>28, <1>29, <1>30, <1>31, <1>32, <1>33, <1>34
       DEF Next, ClientNext, ConnectNext, ConnectServer, ConnectCompletion, Kernel, TakeCompletion,
           CheckReleaseStep, ConnectionStep, AppStep, Assist

\* A caller that still waits finds a post on a connected client only from the
\* worker of its ConnectEx.
LEMMA AnswerStep ==
    ASSUME ~SpecialPostFails, CountIInv, ConnectInv, Next
    PROVE  AnswerInv'
<1> DEFINE Waits == \A b \in AppThreads : pc'[b] = "waitConnect" =>
                        pc[b] = "waitConnect" /\ cur'[b] = cur[b] /\ cur[b] \in Clients
           TimedOut == \A y \in IOContexts : ctxType'[y] = "connectTimeout" =>
                           ctxType[y] = "connectTimeout" /\ ctxClient'[y] = ctxClient[y]
           Answers(d) ==
               /\ Unanswered(d)' => Unanswered(d)
               /\ sem'[d] = sem[d]
               /\ connState'[d] = "CONNECTED" => connState[d] = "CONNECTED"
           Known(d) == (Announced(d) => Announced(d)') /\ (returned'[d] = "id" => returned[d] = "id")
           Kept == Waits /\ TimedOut /\ \A d \in Clients : Answers(d) /\ Known(d)
<1> USE ThreadsDisjoint, CtxDisjoint, NoClientFresh
        DEF CountIInv, RefIInv, TypeOK, ClientTypeOK, ContextTypeOK, ThreadTypeOK, ConnectorTypeOK, Goto,
            Threads, Ctx, poolVars, connVars, ctxVars, connectorVars, ConnInv, AllocInv, PumpIO,
            PumpOp, WorkPCs, TouchingPCs, FirstPCs, PumpPCs, AnswerPCs, ConnectPosted, Unanswered,
            Announced
<1>1. ASSUME NEW x \in Ctx, KernelCompletes(x), UNCHANGED connectorVars
    PROVE  Kept
  <2>1. Waits
    BY <1>1 DEF KernelCompletes
  <2>2. TimedOut
    BY <1>1 DEF KernelCompletes
  <2>3. \A d \in Clients : Answers(d)
    BY <1>1 DEF KernelCompletes
  <2>4. \A d \in Clients : Known(d)
    BY <1>1 DEF KernelCompletes
  <2>5. QED BY <2>1, <2>2, <2>3, <2>4
<1>2. ASSUME NEW x \in Ctx, KernelAborts(x), UNCHANGED connectorVars
    PROVE  Kept
  <2>1. Waits
    BY <1>2 DEF KernelAborts
  <2>2. TimedOut
    BY <1>2 DEF KernelAborts
  <2>3. \A d \in Clients : Answers(d)
    BY <1>2 DEF KernelAborts
  <2>4. \A d \in Clients : Known(d)
    BY <1>2 DEF KernelAborts
  <2>5. QED BY <2>1, <2>2, <2>3, <2>4
<1>3. ASSUME NEW c \in Clients, GoesStale(c), UNCHANGED connectorVars
    PROVE  Kept
  <2>1. Waits
    BY <1>3 DEF GoesStale
  <2>2. TimedOut
    BY <1>3 DEF GoesStale
  <2>3. \A d \in Clients : Answers(d)
    BY <1>3 DEF GoesStale
  <2>4. \A d \in Clients : Known(d)
    BY <1>3 DEF GoesStale
  <2>5. QED BY <2>1, <2>2, <2>3, <2>4
<1>4. ASSUME NEW w \in Workers, NEW c \in Clients, RecvCompleted(w, c), UNCHANGED connectorVars
    PROVE  Kept
  <2>1. Waits
    BY <1>4 DEF RecvCompleted, Dequeue, ClientOf
  <2>2. TimedOut
    BY <1>4 DEF RecvCompleted, Dequeue, ClientOf
  <2>3. \A d \in Clients : Answers(d)
    BY <1>4 DEF RecvCompleted, Dequeue, ClientOf
  <2>4. \A d \in Clients : Known(d)
    BY <1>4 DEF RecvCompleted, Dequeue, ClientOf
  <2>5. QED BY <2>1, <2>2, <2>3, <2>4
<1>5. ASSUME NEW w \in Workers, NEW x \in IOContexts,
           SendCompleted(w, x), UNCHANGED connectorVars
    PROVE  Kept
  <2>1. Waits
    BY <1>5 DEF SendCompleted, Dequeue, ReleaseContext, ClientOf
  <2>2. TimedOut
    BY <1>5 DEF SendCompleted, Dequeue, ReleaseContext, ClientOf
  <2>3. \A d \in Clients : Answers(d)
    BY <1>5 DEF SendCompleted, Dequeue, ReleaseContext, ClientOf
  <2>4. \A d \in Clients : Known(d)
    BY <1>5 DEF SendCompleted, Dequeue, ReleaseContext, ClientOf
  <2>5. QED BY <2>1, <2>2, <2>3, <2>4
<1>6. ASSUME NEW w \in Workers, NEW x \in IOContexts,
           SpecialCompleted(w, x), UNCHANGED connectorVars
    PROVE  Kept
  <2>1. Waits
    BY <1>6 DEF SpecialCompleted, Dequeue, ReleaseContext, ClientOf
  <2>2. TimedOut
    BY <1>6 DEF SpecialCompleted, Dequeue, ReleaseContext, ClientOf
  <2>3. \A d \in Clients : Answers(d)
    BY <1>6 DEF SpecialCompleted, Dequeue, ReleaseContext, ClientOf
  <2>4. \A d \in Clients : Known(d)
    BY <1>6 DEF SpecialCompleted, Dequeue, ReleaseContext, ClientOf
  <2>5. QED BY <2>1, <2>2, <2>3, <2>4
<1>7. ASSUME NEW w \in Workers, NEW x \in Ctx, DequeueFaults(w, x), UNCHANGED connectorVars
    PROVE  Kept
  <2>1. Waits
    BY <1>7 DEF DequeueFaults, ClientOf
  <2>2. TimedOut
    BY <1>7 DEF DequeueFaults, ClientOf
  <2>3. \A d \in Clients : Answers(d)
    BY <1>7 DEF DequeueFaults, ClientOf
  <2>4. \A d \in Clients : Known(d)
    BY <1>7 DEF DequeueFaults, ClientOf
  <2>5. QED BY <2>1, <2>2, <2>3, <2>4
<1>8. ASSUME NEW w \in Workers, OnRecvCompletion(w), UNCHANGED connectorVars
    PROVE  Kept
  <2>1. Waits
    BY <1>8 DEF OnRecvCompletion, At, Tell
  <2>2. TimedOut
    BY <1>8 DEF OnRecvCompletion, At, Tell
  <2>3. \A d \in Clients : Answers(d)
    BY <1>8 DEF OnRecvCompletion, At, Tell
  <2>4. \A d \in Clients : Known(d)
    BY <1>8 DEF OnRecvCompletion, At, Tell
  <2>5. QED BY <2>1, <2>2, <2>3, <2>4
<1>9. ASSUME NEW w \in Workers,
           PostRecv(w, "postRecv", "issueRecv"), UNCHANGED connectorVars
    PROVE  Kept
  <2>1. Waits
    BY <1>9 DEF PostRecv, At
  <2>2. TimedOut
    BY <1>9 DEF PostRecv, At
  <2>3. \A d \in Clients : Answers(d)
    BY <1>9 DEF PostRecv, At
  <2>4. \A d \in Clients : Known(d)
    BY <1>9 DEF PostRecv, At
  <2>5. QED BY <2>1, <2>2, <2>3, <2>4
<1>10. ASSUME NEW w \in Workers,
           IssueRecv(w, "issueRecv", "release", "disconnect"), UNCHANGED connectorVars
    PROVE  Kept
  <2>1. Waits
    BY <1>10 DEF IssueRecv, At
  <2>2. TimedOut
    BY <1>10 DEF IssueRecv, At
  <2>3. \A d \in Clients : Answers(d)
    BY <1>10 DEF IssueRecv, At
  <2>4. \A d \in Clients : Known(d)
    BY <1>10 DEF IssueRecv, At
  <2>5. QED BY <2>1, <2>2, <2>3, <2>4
<1>11. ASSUME NEW w \in Workers, SetDisconnect(w), UNCHANGED connectorVars
    PROVE  Kept
  <2>1. Waits
    BY <1>11 DEF SetDisconnect, At
  <2>2. TimedOut
    BY <1>11 DEF SetDisconnect, At
  <2>3. \A d \in Clients : Answers(d)
    BY <1>11 DEF SetDisconnect, At
  <2>4. \A d \in Clients : Known(d)
    BY <1>11 DEF SetDisconnect, At
  <2>5. QED BY <2>1, <2>2, <2>3, <2>4
<1>12. ASSUME NEW t \in Workers \cup AppThreads, DecreaseIOCount(t), UNCHANGED connectorVars
    PROVE  Kept
  <2>1. Waits
    BY <1>12 DEF DecreaseIOCount, At, Return
  <2>2. TimedOut
    BY <1>12 DEF DecreaseIOCount, At, Return
  <2>3. \A d \in Clients : Answers(d)
    BY <1>12 DEF DecreaseIOCount, At, Return
  <2>4. \A d \in Clients : Known(d)
    BY <1>12 DEF DecreaseIOCount, At, Return
  <2>5. QED BY <2>1, <2>2, <2>3, <2>4
<1>13. ASSUME NEW t \in Workers \cup AppThreads, MarkClosed(t), UNCHANGED connectorVars
    PROVE  Kept
  <2>1. Waits
    BY <1>13 DEF MarkClosed, At
  <2>2. TimedOut
    BY <1>13 DEF MarkClosed, At
  <2>3. \A d \in Clients : Answers(d)
    BY <1>13 DEF MarkClosed, At
  <2>4. \A d \in Clients : Known(d)
    BY <1>13 DEF MarkClosed, At
  <2>5. QED BY <2>1, <2>2, <2>3, <2>4
<1>14. ASSUME NEW t \in Workers \cup AppThreads, ReportClosed(t), UNCHANGED connectorVars
    PROVE  Kept
  <2>1. Waits
    BY <1>14 DEF ReportClosed, At, Return, Tell
  <2>2. TimedOut
    BY <1>14 DEF ReportClosed, At, Return, Tell
  <2>3. \A d \in Clients : Answers(d)
    BY <1>14 DEF ReportClosed, At, Return, Tell
  <2>4. \A d \in Clients : Known(d)
    BY <1>14 DEF ReportClosed, At, Return, Tell
  <2>5. QED BY <2>1, <2>2, <2>3, <2>4
<1>15. ASSUME NEW t \in Workers \cup AppThreads, RemoveClient(t), UNCHANGED connectorVars
    PROVE  Kept
  <2>1. Waits
    BY <1>15 DEF RemoveClient, At, Return, RemoveFromMap
  <2>2. TimedOut
    BY <1>15 DEF RemoveClient, At, Return, RemoveFromMap
  <2>3. \A d \in Clients : Answers(d)
    BY <1>15 DEF RemoveClient, At, Return, RemoveFromMap
  <2>4. \A d \in Clients : Known(d)
    BY <1>15 DEF RemoveClient, At, Return, RemoveFromMap
  <2>5. QED BY <2>1, <2>2, <2>3, <2>4
<1>16. ASSUME NEW a \in AppThreads, NEW c \in Clients,
           FindClient(a, c), UNCHANGED connectorVars
    PROVE  Kept
  <2>1. Waits
    BY <1>16 DEF FindClient
  <2>2. TimedOut
    BY <1>16 DEF FindClient
  <2>3. \A d \in Clients : Answers(d)
    BY <1>16 DEF FindClient
  <2>4. \A d \in Clients : Known(d)
    BY <1>16 DEF FindClient
  <2>5. QED BY <2>1, <2>2, <2>3, <2>4
<1>17. ASSUME NEW a \in AppThreads, PostSend(a), UNCHANGED connectorVars
    PROVE  Kept
  <2>1. Waits
    BY <1>17 DEF PostSend, At, UseContext, FreeContexts
  <2>2. TimedOut
    BY <1>17 DEF PostSend, At, UseContext, FreeContexts
  <2>3. \A d \in Clients : Answers(d)
    BY <1>17 DEF PostSend, At, UseContext, FreeContexts
  <2>4. \A d \in Clients : Known(d)
    BY <1>17 DEF PostSend, At, UseContext, FreeContexts
  <2>5. QED BY <2>1, <2>2, <2>3, <2>4
<1>18. ASSUME NEW a \in AppThreads, CloseSocket(a), UNCHANGED connectorVars
    PROVE  Kept
  <2>1. Waits
    BY <1>18 DEF CloseSocket, At, PostSpecial, UseContext, FreeContexts
  <2>2. TimedOut
    BY <1>18 DEF CloseSocket, At, PostSpecial, UseContext, FreeContexts
  <2>3. \A d \in Clients : Answers(d)
    BY <1>18 DEF CloseSocket, At, PostSpecial, UseContext, FreeContexts
  <2>4. \A d \in Clients : Known(d)
    BY <1>18 DEF CloseSocket, At, PostSpecial, UseContext, FreeContexts
  <2>5. QED BY <2>1, <2>2, <2>3, <2>4
<1>19. ASSUME NEW a \in AppThreads, UnRef(a), UNCHANGED connectorVars
    PROVE  Kept
  <2>1. Waits
    BY <1>19 DEF UnRef, At
  <2>2. TimedOut
    BY <1>19 DEF UnRef, At
  <2>3. \A d \in Clients : Answers(d)
    BY <1>19 DEF UnRef, At
  <2>4. \A d \in Clients : Known(d)
    BY <1>19 DEF UnRef, At
  <2>5. QED BY <2>1, <2>2, <2>3, <2>4
<1>20. ASSUME NEW t \in Threads, Faults(t), UNCHANGED connectorVars
    PROVE  Kept
  <2>1. Waits
    BY <1>20 DEF Faults
  <2>2. TimedOut /\ \A d \in Clients : Answers(d)
    BY <1>20 DEF Faults
  <2>3. pc[t] = "connected" /\ t \in Workers => mem[cur[t]] = "live"
    BY DEF ConnectInv, EndInv, Connecting, ConnectPCs
  <2>4. \A d \in Clients : Known(d)
    BY <1>20, <2>3 DEF Faults
  <2>5. QED BY <2>1, <2>2, <2>4
<1>21. ASSUME NEW c \in Clients, CheckStatus(c), UNCHANGED connectorVars
    PROVE  Kept
  <2>1. Waits
    BY <1>21 DEF CheckStatus, PostSpecial, UseContext, FreeContexts, Unused
  <2>2. TimedOut
    BY <1>21 DEF CheckStatus, PostSpecial, UseContext, FreeContexts, Unused
  <2>3. \A d \in Clients : Answers(d)
    BY <1>21 DEF CheckStatus, PostSpecial, UseContext, FreeContexts, Unused
  <2>4. \A d \in Clients : Known(d)
    BY <1>21 DEF CheckStatus, PostSpecial, UseContext, FreeContexts, Unused
  <2>5. QED BY <2>1, <2>2, <2>3, <2>4
<1>22. ASSUME NEW c \in Clients, CheckStatusFails(c), UNCHANGED connectorVars
    PROVE  Kept
  BY <1>22 DEF CheckStatusFails, PostSpecialFails
<1>23. ASSUME NEW a \in AppThreads, BeginConnect(a)
    PROVE  Kept
  <2>1. Waits
    BY <1>23 DEF BeginConnect
  <2>2. TimedOut
    BY <1>23 DEF BeginConnect
  <2>3. \A d \in Clients : Answers(d)
    BY <1>23 DEF BeginConnect
  <2>4. \A d \in Clients : Known(d)
    BY <1>23 DEF BeginConnect
  <2>5. QED BY <2>1, <2>2, <2>3, <2>4
<1>24. ASSUME NEW a \in AppThreads, PostConnect(a)
    PROVE  AnswerInv'
  <2>1. PICK c \in Clients : c = cur[a]
    BY <1>24 DEF PostConnect, At
  <2>2. /\ \A b \in AppThreads \ {a} : pc[b] = "waitConnect" => cur[b] # c
        /\ \A y \in IOContexts : ctxType[y] # "free" => ctxClient[y] # c
        /\ sem[c] = 0
    BY <1>24, <2>1 DEF PostConnect, At, FirstInv, Fresh
  <2>3. /\ UNCHANGED <<sem, connState, told, ctxType, ctxClient>>
        /\ \A b \in AppThreads \ {a} : pc'[b] = pc[b] /\ cur'[b] = cur[b]
        /\ cur'[a] = cur[a]
    BY <1>24 DEF PostConnect, At
  <2>4. \A d \in Clients : Known(d)
    BY <1>24 DEF PostConnect, At
  <2>5. \A d \in Clients \ {c} : Unanswered(d)' => Unanswered(d)
    BY <1>24, <2>1 DEF PostConnect, At
  <2>6. QED BY <2>1, <2>2, <2>3, <2>4, <2>5, SMTT(30) DEF ConnectInv, AnswerInv
<1>25. ASSUME NEW a \in AppThreads, RemoveUnconnected(a)
    PROVE  Kept
  <2>1. Waits
    BY <1>25 DEF RemoveUnconnected, RemoveFromMap, Returns
  <2>2. TimedOut
    BY <1>25 DEF RemoveUnconnected, RemoveFromMap, Returns
  <2>3. \A d \in Clients : Answers(d)
    BY <1>25 DEF RemoveUnconnected, RemoveFromMap, Returns
  <2>4. \A d \in Clients : Known(d)
    BY <1>25 DEF RemoveUnconnected, RemoveFromMap, Returns
  <2>5. QED BY <2>1, <2>2, <2>3, <2>4
<1>26. ASSUME NEW a \in AppThreads, ConnectAnswered(a)
    PROVE  AnswerInv'
  <2>1. PICK c \in Clients : c = cur[a]
    BY <1>26 DEF ConnectAnswered, At
  <2>2. Waits /\ TimedOut /\ pc'[a] # "waitConnect"
    BY <1>26 DEF ConnectAnswered, At
  <2>3. \A b \in AppThreads \ {a} : pc[b] = "waitConnect" => cur[b] # c
    BY <1>26, <2>1 DEF ConnectAnswered, At, ConnectInv, OneCaller
  <2>4. \A d \in Clients \ {c} : Answers(d) /\ Known(d)
    BY <1>26, <2>1 DEF ConnectAnswered, At, Returns
  <2>5. returned'[c] = "id" => Announced(c)
    BY <1>26, <2>1 DEF ConnectAnswered, At, Returns, ConnectInv, AnswerInv
  <2>6. Announced(c) => Announced(c)'
    BY <1>26 DEF ConnectAnswered, At
  <2>7. QED BY <2>2, <2>3, <2>4, <2>5, <2>6 DEF ConnectInv, AnswerInv
<1>27. ASSUME NEW a \in AppThreads, ConnectTimesOut(a)
    PROVE  AnswerInv'
  <2>1. PICK c \in Clients : c = cur[a]
    BY <1>27 DEF ConnectTimesOut, At
  <2>2. Waits /\ pc'[a] # "waitConnect"
    BY <1>27 DEF ConnectTimesOut, At
  <2>3. \A b \in AppThreads \ {a} : pc[b] = "waitConnect" => cur[b] # c
    BY <1>27, <2>1 DEF ConnectTimesOut, At, ConnectInv, OneCaller
  <2>4. \A y \in IOContexts : ctxType'[y] = "connectTimeout" =>
            \/ ctxType[y] = "connectTimeout" /\ ctxClient'[y] = ctxClient[y]
            \/ ctxClient'[y] = c
    BY <1>27, <2>1 DEF ConnectTimesOut, PostSpecial, PostSpecialFails, UseContext, FreeContexts
  <2>5. \A d \in Clients : Answers(d) /\ Known(d)
    BY <1>27, <2>1 DEF ConnectTimesOut, At, Returns, PostSpecial, PostSpecialFails, UseContext, FreeContexts
  <2>6. QED BY <2>2, <2>3, <2>4, <2>5 DEF ConnectInv, AnswerInv
<1>28. ASSUME NEW w \in Workers, NEW c \in Clients, ConnectCompleted(w, c)
    PROVE  AnswerInv'
  <2>1. Waits /\ TimedOut
    BY <1>28 DEF ConnectCompleted, Dequeue, ClientOf
  <2>2. \A d \in Clients : Known(d) /\ sem'[d] = sem[d] /\ (Unanswered(d)' => Unanswered(d))
    BY <1>28 DEF ConnectCompleted, Dequeue, ClientOf
  <2>3. Unanswered(c) /\ \A d \in Clients \ {c} : connState'[d] = connState[d]
    BY <1>28 DEF ConnectCompleted
  <2>4. QED BY <2>1, <2>2, <2>3, SMTT(30) DEF ConnectInv, AnswerInv
<1>29. ASSUME NEW w \in Workers, NEW c \in Clients, ConnectRefused(w, c)
    PROVE  AnswerInv'
  <2>1. Waits /\ TimedOut
    BY <1>29 DEF ConnectRefused, ConnectFailed, Dequeue, ClientOf
  <2>2. \A d \in Clients \ {c} : Answers(d)
    BY <1>29 DEF ConnectRefused, ConnectFailed, Dequeue, ClientOf
  <2>3. \A d \in Clients : Known(d)
    BY <1>29 DEF ConnectRefused, ConnectFailed, Dequeue, ClientOf
  <2>4. ~Unanswered(c)' /\ connState'[c] = "CLOSED"
    BY <1>29 DEF ConnectRefused, ConnectFailed, Dequeue, ClientOf
  <2>5. QED BY <2>1, <2>2, <2>3, <2>4, SMTT(30) DEF ConnectInv, AnswerInv
<1>30. ASSUME NEW w \in Workers, NEW x \in IOContexts, ConnectTimeoutCompleted(w, x)
    PROVE  AnswerInv'
  <2>1. PICK c \in Clients : c = ctxClient[x]
    BY <1>30 DEF ConnectTimeoutCompleted, Dequeue, ClientOf
  <2>2. Waits /\ TimedOut
    BY <1>30 DEF ConnectTimeoutCompleted, ConnectFailed, Dequeue, ReleaseContext, ClientOf
  <2>3. \A d \in Clients \ {c} : Answers(d)
    BY <1>30, <2>1 DEF ConnectTimeoutCompleted, ConnectFailed, Dequeue, ReleaseContext, ClientOf
  <2>4. \A d \in Clients : Known(d)
    BY <1>30 DEF ConnectTimeoutCompleted, ConnectFailed, Dequeue, ReleaseContext, ClientOf
  <2>5. \A b \in AppThreads : pc[b] = "waitConnect" => cur[b] # c
    BY <1>30, <2>1 DEF ConnectTimeoutCompleted, ConnectInv, AnswerInv
  <2>6. QED BY <2>2, <2>3, <2>4, <2>5, SMTT(30) DEF ConnectInv, AnswerInv
<1>31. ASSUME NEW w \in Workers,
           PostRecv(w, "connectPostRecv", "connectIssueRecv"), UNCHANGED connectorVars
    PROVE  Kept
  <2>1. Waits
    BY <1>31 DEF PostRecv, At
  <2>2. TimedOut
    BY <1>31 DEF PostRecv, At
  <2>3. \A d \in Clients : Answers(d)
    BY <1>31 DEF PostRecv, At
  <2>4. \A d \in Clients : Known(d)
    BY <1>31 DEF PostRecv, At
  <2>5. QED BY <2>1, <2>2, <2>3, <2>4
<1>32. ASSUME NEW w \in Workers,
           IssueRecv(w, "connectIssueRecv", "connectPostSem", "disconnect"), UNCHANGED connectorVars
    PROVE  Kept
  <2>1. Waits
    BY <1>32 DEF IssueRecv, At
  <2>2. TimedOut
    BY <1>32 DEF IssueRecv, At
  <2>3. \A d \in Clients : Answers(d)
    BY <1>32 DEF IssueRecv, At
  <2>4. \A d \in Clients : Known(d)
    BY <1>32 DEF IssueRecv, At
  <2>5. QED BY <2>1, <2>2, <2>3, <2>4
<1>33. ASSUME NEW w \in Workers, PostSem(w)
    PROVE  AnswerInv'
  <2>1. PICK c \in Clients : c = cur[w]
    BY <1>33 DEF PostSem, At
  <2>2. Waits /\ TimedOut
    BY <1>33 DEF PostSem, At
  <2>3. \A d \in Clients \ {c} : Answers(d)
    BY <1>33, <2>1 DEF PostSem, At
  <2>4. \A d \in Clients : Known(d)
    BY <1>33 DEF PostSem, At
  <2>5. ~Unanswered(c)' /\ Announced(c)'
    BY <1>33, <2>1 DEF PostSem, At, OnePump
  <2>6. QED BY <2>2, <2>3, <2>4, <2>5, SMTT(30) DEF ConnectInv, AnswerInv
<1>34. ASSUME NEW w \in Workers, ReportConnected(w)
    PROVE  Kept
  <2>1. Waits
    BY <1>34 DEF ReportConnected, At, Tell
  <2>2. TimedOut
    BY <1>34 DEF ReportConnected, At, Tell
  <2>3. \A d \in Clients : Answers(d)
    BY <1>34 DEF ReportConnected, At, Tell
  <2>4. \A d \in Clients : Known(d)
    BY <1>34 DEF ReportConnected, At, Tell
  <2>5. QED BY <2>1, <2>2, <2>3, <2>4
<1>35. Kept => AnswerInv'
    BY DEF ConnectInv, AnswerInv
<1>36. QED
    BY Next, <1>35, <1>1, <1>2, <1>3, <1>4, <1>5, <1>6, <1>7, <1>8, <1>9, <1>10, <1>11, <1>12,
          <1>13, <1>14, <1>15, <1>16, <1>17, <1>18, <1>19, <1>20, <1>21, <1>22, <1>23, <1>24,
          <1>25, <1>26, <1>27, <1>28, <1>29, <1>30, <1>31, <1>32, <1>33, <1>34
       DEF Next, ClientNext, ConnectNext, ConnectServer, ConnectCompletion, Kernel, TakeCompletion,
           CheckReleaseStep, ConnectionStep, AppStep, Assist

\* The whole invariant of ConnectServer is kept by every step ...
LEMMA ConnectIInvStep == ~SpecialPostFails /\ ConnectIInv /\ [Next]_vars => ConnectIInv'
<1>1. CASE Next
  BY <1>1, CountIInvStep, EndStep, CallerStep, AnswerStep DEF ConnectIInv, ConnectInv, CountIInv
<1>2. ASSUME ~SpecialPostFails, ConnectIInv, UNCHANGED vars
      PROVE  ConnectIInv'
  <2>1. CountIInv'
    BY <1>2, CountIInvStep DEF ConnectIInv
  <2>2. /\ UNCHANGED <<mem, marked, connState, recvOp, io, ctxType, ctxClient, pc, cur, told, sem,
                       returned>>
        /\ EndInv /\ OneCaller /\ AnswerInv
    BY <1>2 DEF vars, poolVars, connVars, ctxVars, connectorVars, ConnectIInv, ConnectInv
  <2>3. EndInv'
    BY <2>2 DEF EndInv, Connecting, ConnectPosted
  <2>4. OneCaller'
    BY <2>2 DEF OneCaller
  <2>5. AnswerInv'
    BY <2>2 DEF AnswerInv, Unanswered, Announced, ConnectPosted
  <2>6. QED BY <2>1, <2>3, <2>4, <2>5 DEF ConnectIInv, ConnectInv
<1>3. QED BY <1>1, <1>2

\* ... and holds before the first ConnectServer.
LEMMA ConnectIInvInit == Init => ConnectIInv
<1> SUFFICES ASSUME Init PROVE ConnectIInv
  OBVIOUS
<1>1. EndInv /\ OneCaller /\ AnswerInv
  BY DEF Init, EndInv, OneCaller, AnswerInv, Connecting, Unanswered, Announced, ConnectPosted,
         ConnectPCs, AnswerPCs, EndPCs, Ctx, Threads
<1>2. QED BY <1>1, CountIInvInit DEF ConnectIInv, ConnectInv

\* A connection being made is not ended, and its caller is answered by its worker,
\* in every state in which no post to the port has failed.
THEOREM ConnectIInvCorrect ==
    ASSUME ~SpecialPostFails
    PROVE  Spec => []ConnectIInv
<1>1. ConnectIInv /\ [Next]_vars => ConnectIInv'
  BY ConnectIInvStep
<1>2. QED BY <1>1, ConnectIInvInit, PTL DEF Spec

\* OnClosed cannot overtake OnConnected on the connecting side: the worker that is
\* to call OnConnected holds a count until it has.
THEOREM ClosedComesAfterConnected ==
    ASSUME ~SpecialPostFails
    PROVE  Spec => []ClosedAfterConnected
<1>1. ASSUME ConnectIInv PROVE ClosedAfterConnected
  <2>1. \A w \in Workers : pc[w] \in ConnectPCs => cur[w] \in Clients
    BY <1>1 DEF ConnectIInv, CountIInv, RefIInv, ConnInv, AllocInv, WorkPCs, TouchingPCs,
                ConnectPCs, AnswerPCs, Threads
  <2>2. \A w \in Workers : pc[w] \in ConnectPCs => Connecting(cur[w])
    BY DEF Connecting
  <2>3. QED BY <1>1, <2>1, <2>2 DEF ConnectIInv, ConnectInv, EndInv, ClosedAfterConnected,
                ConnectPCs, AnswerPCs
<1>2. QED BY <1>1, ConnectIInvCorrect, PTL

\* An id ConnectServer returned is one OnConnected was called for, or is about to be
\* by the worker that woke the caller: never one of a connection given up.
THEOREM ReturnedIdIsConnected ==
    ASSUME ~SpecialPostFails
    PROVE  Spec => []ReturnedIsConnected
<1>1. ConnectIInv => ReturnedIsConnected
  BY DEF ConnectIInv, ConnectInv, AnswerInv, Announced, ReturnedIsConnected
<1>2. QED BY <1>1, ConnectIInvCorrect, PTL

=============================================================================
