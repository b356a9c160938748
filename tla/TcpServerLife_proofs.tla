------------------------- MODULE TcpServerLife_proofs -------------------------
(***************************************************************************)
(* The end of a connection, for any numbers of clients, contexts, threads   *)
(* and accepts, as long as posting to the port does not fail and no callback *)
(* throws: what ServerOneConnection checks of one connection.  The parts of  *)
(* LifeInv are kept one lemma each; they rest on the count being exact       *)
(* (TcpServer_proofs), which makes the thread that takes the last count the  *)
(* only one left (LastCount).  From the same invariant, every step maps to  *)
(* a step of ConnectionLife.  Each lemma about a step has one step per       *)
(* action of Next, in the order of the modules.                              *)
(***************************************************************************)
EXTENDS TcpServerLifeInv, TcpServer_proofs

\* Nobody has a reference to a client the application was not named.
LEMMA Unreferenced ==
    ASSUME RefIInv, NEW c \in Clients, recvOp[c] # "recv"
    PROVE  refCount[c] = 0
<1>1. RefHolders(c) = {}
  BY DEF RefIInv, ConnInv, NamedInv, RefInv, RefNamed, RefHolders
<1>2. QED BY <1>1, FS_EmptySet DEF RefIInv, RefInv, RefCounted

\* Until the first receive is posted nobody but the acceptor comes near a client:
\* checkStatus waits for mRecvContext to be set up, the application for its id.
LEMMA OpenedStep ==
    ASSUME ~SpecialPostFails, ~CallbackThrows, RefIInv, IOCounted, LifeInv, Next
    PROVE  OpenedInv'
<1> USE ThreadsDisjoint, CtxDisjoint, NoClientFresh
        DEF RefIInv, TypeOK, ClientTypeOK, ContextTypeOK, ThreadTypeOK, Goto, Threads, Ctx,
            poolVars, connVars, ctxVars, ConnInv, AllocInv, PumpOp, WorkPCs, TouchingPCs,
            EarlyPCs, LifeInv, FreshInv, OpenedInv, Opened, PastPCs
<1>1. ASSUME NEW x \in Ctx, KernelCompletes(x), UNCHANGED acceptorVars
    PROVE  OpenedInv'
  BY <1>1 DEF KernelCompletes
<1>2. ASSUME NEW x \in Ctx, KernelAborts(x), UNCHANGED acceptorVars
    PROVE  OpenedInv'
  BY <1>2 DEF KernelAborts
<1>3. ASSUME NEW c \in Clients, GoesStale(c), UNCHANGED acceptorVars
    PROVE  OpenedInv'
  BY <1>3 DEF GoesStale
<1>4. ASSUME NEW w \in Workers, NEW c \in Clients, RecvCompleted(w, c), UNCHANGED acceptorVars
    PROVE  OpenedInv'
  BY <1>4 DEF RecvCompleted, Dequeue, ClientOf
<1>5. ASSUME NEW w \in Workers, NEW x \in IOContexts,
           SendCompleted(w, x), UNCHANGED acceptorVars
    PROVE  OpenedInv'
  BY <1>5 DEF SendCompleted, Dequeue, ReleaseContext, ClientOf
<1>6. ASSUME NEW w \in Workers, NEW x \in IOContexts,
           SpecialCompleted(w, x), UNCHANGED acceptorVars
    PROVE  OpenedInv'
  BY <1>6 DEF SpecialCompleted, Dequeue, ReleaseContext, ClientOf
<1>7. ASSUME NEW w \in Workers, NEW x \in Ctx, DequeueFaults(w, x), UNCHANGED acceptorVars
    PROVE  OpenedInv'
  BY <1>7 DEF DequeueFaults, ClientOf
<1>8. ASSUME NEW w \in Workers, OnRecvCompletion(w), UNCHANGED acceptorVars
    PROVE  OpenedInv'
  BY <1>8 DEF OnRecvCompletion, At, Tell
<1>9. ASSUME NEW w \in Workers, PostRecv(w, "postRecv", "issueRecv"), UNCHANGED acceptorVars
    PROVE  OpenedInv'
  BY <1>9 DEF PostRecv, At
<1>10. ASSUME NEW w \in Workers,
           IssueRecv(w, "issueRecv", "release", "disconnect"), UNCHANGED acceptorVars
    PROVE  OpenedInv'
  BY <1>10 DEF IssueRecv, At
<1>11. ASSUME NEW w \in Workers, SetDisconnect(w), UNCHANGED acceptorVars
    PROVE  OpenedInv'
  BY <1>11 DEF SetDisconnect, At
<1>12. ASSUME NEW t \in Workers \cup AppThreads, DecreaseIOCount(t), UNCHANGED acceptorVars
    PROVE  OpenedInv'
  BY <1>12 DEF DecreaseIOCount, At, Return
<1>13. ASSUME NEW t \in Workers \cup AppThreads, MarkClosed(t), UNCHANGED acceptorVars
    PROVE  OpenedInv'
  BY <1>13 DEF MarkClosed, At
<1>14. ASSUME NEW t \in Workers \cup AppThreads, ReportClosed(t), UNCHANGED acceptorVars
    PROVE  OpenedInv'
  BY <1>14 DEF ReportClosed, At, Return, Tell
<1>15. ASSUME NEW t \in Workers \cup AppThreads, RemoveClient(t), UNCHANGED acceptorVars
    PROVE  OpenedInv'
  BY <1>15 DEF RemoveClient, At, Return, RemoveFromMap
<1>16. ASSUME NEW a \in AppThreads, NEW c \in Clients, FindClient(a, c), UNCHANGED acceptorVars
    PROVE  OpenedInv'
  BY <1>16 DEF FindClient, NamedInv, Named
<1>17. ASSUME NEW a \in AppThreads, PostSend(a), UNCHANGED acceptorVars
    PROVE  OpenedInv'
  BY <1>17 DEF PostSend, At, UseContext, FreeContexts
<1>18. ASSUME NEW a \in AppThreads, CloseSocket(a), UNCHANGED acceptorVars
    PROVE  OpenedInv'
  BY <1>18 DEF CloseSocket, At, PostSpecial, UseContext, FreeContexts
<1>19. ASSUME NEW a \in AppThreads, UnRef(a), UNCHANGED acceptorVars
    PROVE  OpenedInv'
  BY <1>19 DEF UnRef, At
<1>20. ASSUME NEW t \in Threads, Faults(t), UNCHANGED acceptorVars
    PROVE  OpenedInv'
  BY <1>20 DEF Faults
<1>21. ASSUME NEW c \in Clients, CheckStatus(c), UNCHANGED acceptorVars
    PROVE  OpenedInv'
  BY <1>21, SMTT(30) DEF CheckStatus, PostSpecial, UseContext, FreeContexts, Unused
<1>22. ASSUME NEW c \in Clients, CheckStatusFails(c), UNCHANGED acceptorVars
    PROVE  OpenedInv'
  BY <1>22 DEF CheckStatusFails, PostSpecialFails
<1>23. ASSUME NEW w \in Workers, NEW c \in Clients, AcceptCompleted(w, c)
    PROVE  OpenedInv'
  BY <1>23 DEF AcceptCompleted
<1>24. ASSUME NEW w \in Workers,
           PostRecv(w, "acceptPostRecv", "acceptIssueRecv"), UNCHANGED acceptorVars
    PROVE  OpenedInv'
  BY <1>24 DEF PostRecv, At
<1>25. ASSUME NEW w \in Workers,
           IssueRecv(w, "acceptIssueRecv", "accepted", "acceptFailed"), UNCHANGED acceptorVars
    PROVE  OpenedInv'
  BY <1>25 DEF IssueRecv, At
<1>26. ASSUME NEW w \in Workers, ReportConnected(w)
    PROVE  OpenedInv'
  BY <1>26 DEF ReportConnected, At, Tell
<1>27. ASSUME NEW w \in Workers, DropClient(w)
    PROVE  OpenedInv'
  BY <1>27 DEF DropClient, At
<1>28. ASSUME NEW w \in Workers, RemoveDropped(w)
    PROVE  OpenedInv'
  BY <1>28 DEF RemoveDropped, RemoveFromMap
<1>29. ASSUME NEW w \in Workers, DecrementPending(w)
    PROVE  OpenedInv'
  BY <1>29 DEF DecrementPending
<1>30. ASSUME NEW t \in Workers \cup {Starter}, AllocTcpClient(t)
    PROVE  OpenedInv'
  BY <1>30 DEF AllocTcpClient
<1>31. ASSUME NEW t \in Workers \cup {Starter}, CannotPostAccept(t)
    PROVE  OpenedInv'
  BY <1>31 DEF CannotPostAccept, AfterAccept
<1>32. ASSUME NEW t \in Workers \cup {Starter}, IncrementPending(t)
    PROVE  OpenedInv'
  BY <1>32 DEF IncrementPending, At
<1>33. ASSUME NEW t \in Workers \cup {Starter}, AcceptExSucceeds(t)
    PROVE  OpenedInv'
  BY <1>33 DEF AcceptExSucceeds, At, AfterAccept
<1>34. ASSUME NEW t \in Workers \cup {Starter}, AcceptExFails(t)
    PROVE  OpenedInv'
  BY <1>34 DEF AcceptExFails, At, AfterAccept, RemoveFromMap
<1>35. ASSUME NEW t \in Workers \cup {Starter}, AcceptorFaults(t)
    PROVE  OpenedInv'
  BY <1>35 DEF AcceptorFaults
<1>36. ASSUME StartFails
    PROVE  OpenedInv'
  BY <1>36 DEF StartFails
<1>37. QED
    BY Next, <1>1, <1>2, <1>3, <1>4, <1>5, <1>6, <1>7, <1>8, <1>9, <1>10, <1>11, <1>12, <1>13,
       <1>14, <1>15, <1>16, <1>17, <1>18, <1>19, <1>20, <1>21, <1>22, <1>23, <1>24, <1>25, <1>26,
       <1>27, <1>28, <1>29, <1>30, <1>31, <1>32, <1>33, <1>34, <1>35, <1>36
       DEF Next, ClientNext, AcceptorNext, Kernel, TakeCompletion, CheckReleaseStep, ConnectionStep,
              AppStep, Assist, AcceptConnection, PostAccept

\* A client starts, and is dropped, closed and unmarked with its clock running.
LEMMA FreshStep ==
    ASSUME ~SpecialPostFails, ~CallbackThrows, RefIInv, IOCounted, LifeInv, Next
    PROVE  FreshInv'
<1> USE ThreadsDisjoint, CtxDisjoint, NoClientFresh
        DEF RefIInv, TypeOK, ClientTypeOK, ContextTypeOK, ThreadTypeOK, Goto, Threads, Ctx,
            poolVars, connVars, ctxVars, ConnInv, AllocInv, OnePump, PumpIO, PumpOp, WorkPCs,
            TouchingPCs, EarlyPCs, PumpPCs, LifeInv, OpenedInv, Opened, PastPCs, FreshInv
<1>1. ASSUME NEW x \in Ctx, KernelCompletes(x), UNCHANGED acceptorVars
    PROVE  FreshInv'
  BY <1>1 DEF KernelCompletes
<1>2. ASSUME NEW x \in Ctx, KernelAborts(x), UNCHANGED acceptorVars
    PROVE  FreshInv'
  BY <1>2 DEF KernelAborts
<1>3. ASSUME NEW c \in Clients, GoesStale(c), UNCHANGED acceptorVars
    PROVE  FreshInv'
  BY <1>3 DEF GoesStale, UnstalledPCs
<1>4. ASSUME NEW w \in Workers, NEW c \in Clients, RecvCompleted(w, c), UNCHANGED acceptorVars
    PROVE  FreshInv'
  BY <1>4 DEF RecvCompleted, Dequeue, ClientOf
<1>5. ASSUME NEW w \in Workers, NEW x \in IOContexts,
           SendCompleted(w, x), UNCHANGED acceptorVars
    PROVE  FreshInv'
  BY <1>5 DEF SendCompleted, Dequeue, ReleaseContext, ClientOf
<1>6. ASSUME NEW w \in Workers, NEW x \in IOContexts,
           SpecialCompleted(w, x), UNCHANGED acceptorVars
    PROVE  FreshInv'
  BY <1>6 DEF SpecialCompleted, Dequeue, ReleaseContext, ClientOf
<1>7. ASSUME NEW w \in Workers, NEW x \in Ctx, DequeueFaults(w, x), UNCHANGED acceptorVars
    PROVE  FreshInv'
  BY <1>7 DEF DequeueFaults, ClientOf
<1>8. ASSUME NEW w \in Workers, OnRecvCompletion(w), UNCHANGED acceptorVars
    PROVE  FreshInv'
  BY <1>8 DEF OnRecvCompletion, At, Tell
<1>9. ASSUME NEW w \in Workers, PostRecv(w, "postRecv", "issueRecv"), UNCHANGED acceptorVars
    PROVE  FreshInv'
  BY <1>9 DEF PostRecv, At
<1>10. ASSUME NEW w \in Workers,
           IssueRecv(w, "issueRecv", "release", "disconnect"), UNCHANGED acceptorVars
    PROVE  FreshInv'
  BY <1>10 DEF IssueRecv, At
<1>11. ASSUME NEW w \in Workers, SetDisconnect(w), UNCHANGED acceptorVars
    PROVE  FreshInv'
  BY <1>11 DEF SetDisconnect, At
<1>12. ASSUME NEW t \in Workers \cup AppThreads, DecreaseIOCount(t), UNCHANGED acceptorVars
    PROVE  FreshInv'
  BY <1>12 DEF DecreaseIOCount, At, Return
<1>13. ASSUME NEW t \in Workers \cup AppThreads, MarkClosed(t), UNCHANGED acceptorVars
    PROVE  FreshInv'
  BY <1>13 DEF MarkClosed, At
<1>14. ASSUME NEW t \in Workers \cup AppThreads, ReportClosed(t), UNCHANGED acceptorVars
    PROVE  FreshInv'
  BY <1>14 DEF ReportClosed, At, Return, Tell
<1>15. ASSUME NEW t \in Workers \cup AppThreads, RemoveClient(t), UNCHANGED acceptorVars
    PROVE  FreshInv'
  BY <1>15, SMTT(30) DEF RemoveClient, At, Return, RemoveFromMap, HasID
<1>16. ASSUME NEW a \in AppThreads, NEW c \in Clients, FindClient(a, c), UNCHANGED acceptorVars
    PROVE  FreshInv'
  BY <1>16 DEF FindClient
<1>17. ASSUME NEW a \in AppThreads, PostSend(a), UNCHANGED acceptorVars
    PROVE  FreshInv'
  BY <1>17 DEF PostSend, At, UseContext, FreeContexts
<1>18. ASSUME NEW a \in AppThreads, CloseSocket(a), UNCHANGED acceptorVars
    PROVE  FreshInv'
  BY <1>18 DEF CloseSocket, At, PostSpecial, UseContext, FreeContexts
<1>19. ASSUME NEW a \in AppThreads, UnRef(a), UNCHANGED acceptorVars
    PROVE  FreshInv'
  BY <1>19 DEF UnRef, At
<1>20. ASSUME NEW t \in Threads, Faults(t), UNCHANGED acceptorVars
    PROVE  FreshInv'
  BY <1>20 DEF Faults
<1>21. ASSUME NEW c \in Clients, CheckStatus(c), UNCHANGED acceptorVars
    PROVE  FreshInv'
  BY <1>21 DEF CheckStatus, PostSpecial, UseContext, FreeContexts, Unused
<1>22. ASSUME NEW c \in Clients, CheckStatusFails(c), UNCHANGED acceptorVars
    PROVE  FreshInv'
  BY <1>22 DEF CheckStatusFails, PostSpecialFails
<1>23. ASSUME NEW w \in Workers, NEW c \in Clients, AcceptCompleted(w, c)
    PROVE  FreshInv'
  BY <1>23 DEF AcceptCompleted
<1>24. ASSUME NEW w \in Workers,
           PostRecv(w, "acceptPostRecv", "acceptIssueRecv"), UNCHANGED acceptorVars
    PROVE  FreshInv'
  BY <1>24 DEF PostRecv, At
<1>25. ASSUME NEW w \in Workers,
           IssueRecv(w, "acceptIssueRecv", "accepted", "acceptFailed"), UNCHANGED acceptorVars
    PROVE  FreshInv'
  BY <1>25 DEF IssueRecv, At
<1>26. ASSUME NEW w \in Workers, ReportConnected(w)
    PROVE  FreshInv'
  BY <1>26 DEF ReportConnected, At, Tell
<1>27. ASSUME NEW w \in Workers, DropClient(w)
    PROVE  FreshInv'
  BY <1>27 DEF DropClient, At
<1>28. ASSUME NEW w \in Workers, RemoveDropped(w)
    PROVE  FreshInv'
  <2>1. recvOp[cur[w]] # "recv" /\ cur[w] \in Clients
    BY <1>28 DEF RemoveDropped
  <2>2. refCount[cur[w]] = 0
    BY <2>1, Unreferenced
  <2>3. UNCHANGED marked
    BY <1>28, <2>2 DEF RemoveDropped, RemoveFromMap
  <2>4. QED BY <1>28, <2>3 DEF RemoveDropped, RemoveFromMap
<1>29. ASSUME NEW w \in Workers, DecrementPending(w)
    PROVE  FreshInv'
  BY <1>29 DEF DecrementPending
<1>30. ASSUME NEW t \in Workers \cup {Starter}, AllocTcpClient(t)
    PROVE  FreshInv'
  BY <1>30 DEF AllocTcpClient
<1>31. ASSUME NEW t \in Workers \cup {Starter}, CannotPostAccept(t)
    PROVE  FreshInv'
  BY <1>31 DEF CannotPostAccept, AfterAccept
<1>32. ASSUME NEW t \in Workers \cup {Starter}, IncrementPending(t)
    PROVE  FreshInv'
  BY <1>32 DEF IncrementPending, At
<1>33. ASSUME NEW t \in Workers \cup {Starter}, AcceptExSucceeds(t)
    PROVE  FreshInv'
  BY <1>33 DEF AcceptExSucceeds, At, AfterAccept
<1>34. ASSUME NEW t \in Workers \cup {Starter}, AcceptExFails(t)
    PROVE  FreshInv'
  <2>1. recvOp[cur[t]] # "recv" /\ cur[t] \in Clients
    BY <1>34 DEF AcceptExFails, At, AfterAccept
  <2>2. refCount[cur[t]] = 0
    BY <2>1, Unreferenced
  <2>3. UNCHANGED marked
    BY <1>34, <2>2 DEF AcceptExFails, At, AfterAccept, RemoveFromMap
  <2>4. QED BY <1>34, <2>3 DEF AcceptExFails, At, AfterAccept, RemoveFromMap
<1>35. ASSUME NEW t \in Workers \cup {Starter}, AcceptorFaults(t)
    PROVE  FreshInv'
  BY <1>35 DEF AcceptorFaults
<1>36. ASSUME StartFails
    PROVE  FreshInv'
  BY <1>36 DEF StartFails
<1>37. QED
    BY Next, <1>1, <1>2, <1>3, <1>4, <1>5, <1>6, <1>7, <1>8, <1>9, <1>10, <1>11, <1>12, <1>13,
       <1>14, <1>15, <1>16, <1>17, <1>18, <1>19, <1>20, <1>21, <1>22, <1>23, <1>24, <1>25, <1>26,
       <1>27, <1>28, <1>29, <1>30, <1>31, <1>32, <1>33, <1>34, <1>35, <1>36
       DEF Next, ClientNext, AcceptorNext, Kernel, TakeCompletion, CheckReleaseStep, ConnectionStep,
              AppStep, Assist, AcceptConnection, PostAccept

\* Sends are posted with a reference, and references come with a name.
LEMMA SendNamedStep ==
    ASSUME ~SpecialPostFails, ~CallbackThrows, RefIInv, IOCounted, LifeInv, Next
    PROVE  SendNamed'
<1> USE ThreadsDisjoint, CtxDisjoint, NoClientFresh
        DEF RefIInv, TypeOK, ClientTypeOK, ContextTypeOK, ThreadTypeOK, Goto, Threads, Ctx,
            poolVars, connVars, ctxVars, ConnInv, AllocInv, WorkPCs, TouchingPCs, EarlyPCs,
            PumpPCs, NamedInv, RefInv, RefNamed, RefPCs, Named, LifeInv, SendNamed, SendOn
<1>1. ASSUME NEW x \in Ctx, KernelCompletes(x), UNCHANGED acceptorVars
    PROVE  SendNamed'
  BY <1>1 DEF KernelCompletes
<1>2. ASSUME NEW x \in Ctx, KernelAborts(x), UNCHANGED acceptorVars
    PROVE  SendNamed'
  BY <1>2 DEF KernelAborts
<1>3. ASSUME NEW c \in Clients, GoesStale(c), UNCHANGED acceptorVars
    PROVE  SendNamed'
  BY <1>3 DEF GoesStale
<1>4. ASSUME NEW w \in Workers, NEW c \in Clients, RecvCompleted(w, c), UNCHANGED acceptorVars
    PROVE  SendNamed'
  BY <1>4 DEF RecvCompleted, Dequeue, ClientOf
<1>5. ASSUME NEW w \in Workers, NEW x \in IOContexts,
           SendCompleted(w, x), UNCHANGED acceptorVars
    PROVE  SendNamed'
  BY <1>5 DEF SendCompleted, Dequeue, ReleaseContext, ClientOf
<1>6. ASSUME NEW w \in Workers, NEW x \in IOContexts,
           SpecialCompleted(w, x), UNCHANGED acceptorVars
    PROVE  SendNamed'
  BY <1>6 DEF SpecialCompleted, Dequeue, ReleaseContext, ClientOf
<1>7. ASSUME NEW w \in Workers, NEW x \in Ctx, DequeueFaults(w, x), UNCHANGED acceptorVars
    PROVE  SendNamed'
  BY <1>7 DEF DequeueFaults, ClientOf
<1>8. ASSUME NEW w \in Workers, OnRecvCompletion(w), UNCHANGED acceptorVars
    PROVE  SendNamed'
  BY <1>8 DEF OnRecvCompletion, At, Tell
<1>9. ASSUME NEW w \in Workers, PostRecv(w, "postRecv", "issueRecv"), UNCHANGED acceptorVars
    PROVE  SendNamed'
  BY <1>9 DEF PostRecv, At
<1>10. ASSUME NEW w \in Workers,
           IssueRecv(w, "issueRecv", "release", "disconnect"), UNCHANGED acceptorVars
    PROVE  SendNamed'
  BY <1>10 DEF IssueRecv, At
<1>11. ASSUME NEW w \in Workers, SetDisconnect(w), UNCHANGED acceptorVars
    PROVE  SendNamed'
  BY <1>11 DEF SetDisconnect, At
<1>12. ASSUME NEW t \in Workers \cup AppThreads, DecreaseIOCount(t), UNCHANGED acceptorVars
    PROVE  SendNamed'
  BY <1>12 DEF DecreaseIOCount, At, Return
<1>13. ASSUME NEW t \in Workers \cup AppThreads, MarkClosed(t), UNCHANGED acceptorVars
    PROVE  SendNamed'
  BY <1>13 DEF MarkClosed, At
<1>14. ASSUME NEW t \in Workers \cup AppThreads, ReportClosed(t), UNCHANGED acceptorVars
    PROVE  SendNamed'
  BY <1>14 DEF ReportClosed, At, Return, Tell
<1>15. ASSUME NEW t \in Workers \cup AppThreads, RemoveClient(t), UNCHANGED acceptorVars
    PROVE  SendNamed'
  BY <1>15 DEF RemoveClient, At, Return, RemoveFromMap
<1>16. ASSUME NEW a \in AppThreads, NEW c \in Clients, FindClient(a, c), UNCHANGED acceptorVars
    PROVE  SendNamed'
  BY <1>16 DEF FindClient
<1>17. ASSUME NEW a \in AppThreads, PostSend(a), UNCHANGED acceptorVars
    PROVE  SendNamed'
  BY <1>17 DEF PostSend, At, UseContext, FreeContexts
<1>18. ASSUME NEW a \in AppThreads, CloseSocket(a), UNCHANGED acceptorVars
    PROVE  SendNamed'
  BY <1>18 DEF CloseSocket, At, PostSpecial, UseContext, FreeContexts
<1>19. ASSUME NEW a \in AppThreads, UnRef(a), UNCHANGED acceptorVars
    PROVE  SendNamed'
  BY <1>19 DEF UnRef, At
<1>20. ASSUME NEW t \in Threads, Faults(t), UNCHANGED acceptorVars
    PROVE  SendNamed'
  BY <1>20 DEF Faults
<1>21. ASSUME NEW c \in Clients, CheckStatus(c), UNCHANGED acceptorVars
    PROVE  SendNamed'
  BY <1>21 DEF CheckStatus, PostSpecial, UseContext, FreeContexts, Unused
<1>22. ASSUME NEW c \in Clients, CheckStatusFails(c), UNCHANGED acceptorVars
    PROVE  SendNamed'
  BY <1>22 DEF CheckStatusFails, PostSpecialFails
<1>23. ASSUME NEW w \in Workers, NEW c \in Clients, AcceptCompleted(w, c)
    PROVE  SendNamed'
  BY <1>23 DEF AcceptCompleted
<1>24. ASSUME NEW w \in Workers,
           PostRecv(w, "acceptPostRecv", "acceptIssueRecv"), UNCHANGED acceptorVars
    PROVE  SendNamed'
  BY <1>24 DEF PostRecv, At
<1>25. ASSUME NEW w \in Workers,
           IssueRecv(w, "acceptIssueRecv", "accepted", "acceptFailed"), UNCHANGED acceptorVars
    PROVE  SendNamed'
  BY <1>25 DEF IssueRecv, At
<1>26. ASSUME NEW w \in Workers, ReportConnected(w)
    PROVE  SendNamed'
  BY <1>26 DEF ReportConnected, At, Tell
<1>27. ASSUME NEW w \in Workers, DropClient(w)
    PROVE  SendNamed'
  BY <1>27 DEF DropClient, At
<1>28. ASSUME NEW w \in Workers, RemoveDropped(w)
    PROVE  SendNamed'
  BY <1>28 DEF RemoveDropped, RemoveFromMap
<1>29. ASSUME NEW w \in Workers, DecrementPending(w)
    PROVE  SendNamed'
  BY <1>29 DEF DecrementPending
<1>30. ASSUME NEW t \in Workers \cup {Starter}, AllocTcpClient(t)
    PROVE  SendNamed'
  BY <1>30 DEF AllocTcpClient
<1>31. ASSUME NEW t \in Workers \cup {Starter}, CannotPostAccept(t)
    PROVE  SendNamed'
  BY <1>31 DEF CannotPostAccept, AfterAccept
<1>32. ASSUME NEW t \in Workers \cup {Starter}, IncrementPending(t)
    PROVE  SendNamed'
  BY <1>32 DEF IncrementPending, At
<1>33. ASSUME NEW t \in Workers \cup {Starter}, AcceptExSucceeds(t)
    PROVE  SendNamed'
  BY <1>33 DEF AcceptExSucceeds, At, AfterAccept
<1>34. ASSUME NEW t \in Workers \cup {Starter}, AcceptExFails(t)
    PROVE  SendNamed'
  BY <1>34 DEF AcceptExFails, At, AfterAccept, RemoveFromMap
<1>35. ASSUME NEW t \in Workers \cup {Starter}, AcceptorFaults(t)
    PROVE  SendNamed'
  BY <1>35 DEF AcceptorFaults
<1>36. ASSUME StartFails
    PROVE  SendNamed'
  BY <1>36 DEF StartFails
<1>37. QED
    BY Next, <1>1, <1>2, <1>3, <1>4, <1>5, <1>6, <1>7, <1>8, <1>9, <1>10, <1>11, <1>12, <1>13,
       <1>14, <1>15, <1>16, <1>17, <1>18, <1>19, <1>20, <1>21, <1>22, <1>23, <1>24, <1>25, <1>26,
       <1>27, <1>28, <1>29, <1>30, <1>31, <1>32, <1>33, <1>34, <1>35, <1>36
       DEF Next, ClientNext, AcceptorNext, Kernel, TakeCompletion, CheckReleaseStep, ConnectionStep,
              AppStep, Assist, AcceptConnection, PostAccept

\* What may still be under way on a dropped client only takes its count down.
LEMMA DroppedDrainedStep ==
    ASSUME ~SpecialPostFails, ~CallbackThrows, RefIInv, IOCounted, LifeInv, Next
    PROVE  DroppedDrained'
<1> USE ThreadsDisjoint, CtxDisjoint, NoClientFresh
        DEF RefIInv, TypeOK, ClientTypeOK, ContextTypeOK, ThreadTypeOK, Goto, Threads, Ctx,
            poolVars, connVars, ctxVars, ConnInv, AllocInv, OnePump, PumpOp, WorkPCs, TouchingPCs,
            EarlyPCs, PumpPCs, NamedInv, RefInv, RefNamed, RefPCs, Named, LifeInv, FreshInv,
            DroppedDrained, Dropped
<1>1. ASSUME NEW x \in Ctx, KernelCompletes(x), UNCHANGED acceptorVars
    PROVE  DroppedDrained'
  BY <1>1 DEF KernelCompletes
<1>2. ASSUME NEW x \in Ctx, KernelAborts(x), UNCHANGED acceptorVars
    PROVE  DroppedDrained'
  BY <1>2 DEF KernelAborts
<1>3. ASSUME NEW c \in Clients, GoesStale(c), UNCHANGED acceptorVars
    PROVE  DroppedDrained'
  BY <1>3 DEF GoesStale
<1>4. ASSUME NEW w \in Workers, NEW c \in Clients, RecvCompleted(w, c), UNCHANGED acceptorVars
    PROVE  DroppedDrained'
  BY <1>4 DEF RecvCompleted, Dequeue, ClientOf
<1>5. ASSUME NEW w \in Workers, NEW x \in IOContexts,
           SendCompleted(w, x), UNCHANGED acceptorVars
    PROVE  DroppedDrained'
  BY <1>5 DEF SendCompleted, Dequeue, ReleaseContext, ClientOf
<1>6. ASSUME NEW w \in Workers, NEW x \in IOContexts,
           SpecialCompleted(w, x), UNCHANGED acceptorVars
    PROVE  DroppedDrained'
  BY <1>6 DEF SpecialCompleted, Dequeue, ReleaseContext, ClientOf
<1>7. ASSUME NEW w \in Workers, NEW x \in Ctx, DequeueFaults(w, x), UNCHANGED acceptorVars
    PROVE  DroppedDrained'
  BY <1>7 DEF DequeueFaults, ClientOf
<1>8. ASSUME NEW w \in Workers, OnRecvCompletion(w), UNCHANGED acceptorVars
    PROVE  DroppedDrained'
  BY <1>8 DEF OnRecvCompletion, At, Tell
<1>9. ASSUME NEW w \in Workers, PostRecv(w, "postRecv", "issueRecv"), UNCHANGED acceptorVars
    PROVE  DroppedDrained'
  BY <1>9 DEF PostRecv, At
<1>10. ASSUME NEW w \in Workers,
           IssueRecv(w, "issueRecv", "release", "disconnect"), UNCHANGED acceptorVars
    PROVE  DroppedDrained'
  BY <1>10 DEF IssueRecv, At
<1>11. ASSUME NEW w \in Workers, SetDisconnect(w), UNCHANGED acceptorVars
    PROVE  DroppedDrained'
  BY <1>11 DEF SetDisconnect, At
<1>12. ASSUME NEW t \in Workers \cup AppThreads, DecreaseIOCount(t), UNCHANGED acceptorVars
    PROVE  DroppedDrained'
  BY <1>12 DEF DecreaseIOCount, At, Return
<1>13. ASSUME NEW t \in Workers \cup AppThreads, MarkClosed(t), UNCHANGED acceptorVars
    PROVE  DroppedDrained'
  BY <1>13 DEF MarkClosed, At
<1>14. ASSUME NEW t \in Workers \cup AppThreads, ReportClosed(t), UNCHANGED acceptorVars
    PROVE  DroppedDrained'
  BY <1>14 DEF ReportClosed, At, Return, Tell
<1>15. ASSUME NEW t \in Workers \cup AppThreads, RemoveClient(t), UNCHANGED acceptorVars
    PROVE  DroppedDrained'
  BY <1>15 DEF RemoveClient, At, Return, RemoveFromMap
<1>16. ASSUME NEW a \in AppThreads, NEW c \in Clients, FindClient(a, c), UNCHANGED acceptorVars
    PROVE  DroppedDrained'
  BY <1>16 DEF FindClient
<1>17. ASSUME NEW a \in AppThreads, PostSend(a), UNCHANGED acceptorVars
    PROVE  DroppedDrained'
  BY <1>17 DEF PostSend, At, UseContext, FreeContexts
<1>18. ASSUME NEW a \in AppThreads, CloseSocket(a), UNCHANGED acceptorVars
    PROVE  DroppedDrained'
  BY <1>18 DEF CloseSocket, At, PostSpecial, UseContext, FreeContexts
<1>19. ASSUME NEW a \in AppThreads, UnRef(a), UNCHANGED acceptorVars
    PROVE  DroppedDrained'
  BY <1>19 DEF UnRef, At
<1>20. ASSUME NEW t \in Threads, Faults(t), UNCHANGED acceptorVars
    PROVE  DroppedDrained'
  BY <1>20 DEF Faults
<1>21. ASSUME NEW c \in Clients, CheckStatus(c), UNCHANGED acceptorVars
    PROVE  DroppedDrained'
  BY <1>21 DEF CheckStatus, PostSpecial, UseContext, FreeContexts, Unused
<1>22. ASSUME NEW c \in Clients, CheckStatusFails(c), UNCHANGED acceptorVars
    PROVE  DroppedDrained'
  BY <1>22 DEF CheckStatusFails, PostSpecialFails
<1>23. ASSUME NEW w \in Workers, NEW c \in Clients, AcceptCompleted(w, c)
    PROVE  DroppedDrained'
  BY <1>23 DEF AcceptCompleted
<1>24. ASSUME NEW w \in Workers,
           PostRecv(w, "acceptPostRecv", "acceptIssueRecv"), UNCHANGED acceptorVars
    PROVE  DroppedDrained'
  BY <1>24 DEF PostRecv, At
<1>25. ASSUME NEW w \in Workers,
           IssueRecv(w, "acceptIssueRecv", "accepted", "acceptFailed"), UNCHANGED acceptorVars
    PROVE  DroppedDrained'
  BY <1>25 DEF IssueRecv, At
<1>26. ASSUME NEW w \in Workers, ReportConnected(w)
    PROVE  DroppedDrained'
  BY <1>26 DEF ReportConnected, At, Tell
<1>27. ASSUME NEW w \in Workers, DropClient(w)
    PROVE  DroppedDrained'
  BY <1>27 DEF DropClient, At
<1>28. ASSUME NEW w \in Workers, RemoveDropped(w)
    PROVE  DroppedDrained'
  BY <1>28 DEF RemoveDropped, RemoveFromMap
<1>29. ASSUME NEW w \in Workers, DecrementPending(w)
    PROVE  DroppedDrained'
  BY <1>29 DEF DecrementPending
<1>30. ASSUME NEW t \in Workers \cup {Starter}, AllocTcpClient(t)
    PROVE  DroppedDrained'
  BY <1>30 DEF AllocTcpClient
<1>31. ASSUME NEW t \in Workers \cup {Starter}, CannotPostAccept(t)
    PROVE  DroppedDrained'
  BY <1>31 DEF CannotPostAccept, AfterAccept
<1>32. ASSUME NEW t \in Workers \cup {Starter}, IncrementPending(t)
    PROVE  DroppedDrained'
  BY <1>32 DEF IncrementPending, At
<1>33. ASSUME NEW t \in Workers \cup {Starter}, AcceptExSucceeds(t)
    PROVE  DroppedDrained'
  BY <1>33 DEF AcceptExSucceeds, At, AfterAccept
<1>34. ASSUME NEW t \in Workers \cup {Starter}, AcceptExFails(t)
    PROVE  DroppedDrained'
  BY <1>34 DEF AcceptExFails, At, AfterAccept, RemoveFromMap
<1>35. ASSUME NEW t \in Workers \cup {Starter}, AcceptorFaults(t)
    PROVE  DroppedDrained'
  BY <1>35 DEF AcceptorFaults
<1>36. ASSUME StartFails
    PROVE  DroppedDrained'
  BY <1>36 DEF StartFails
<1>37. QED
    BY Next, <1>1, <1>2, <1>3, <1>4, <1>5, <1>6, <1>7, <1>8, <1>9, <1>10, <1>11, <1>12, <1>13,
       <1>14, <1>15, <1>16, <1>17, <1>18, <1>19, <1>20, <1>21, <1>22, <1>23, <1>24, <1>25, <1>26,
       <1>27, <1>28, <1>29, <1>30, <1>31, <1>32, <1>33, <1>34, <1>35, <1>36
       DEF Next, ClientNext, AcceptorNext, Kernel, TakeCompletion, CheckReleaseStep, ConnectionStep,
              AppStep, Assist, AcceptConnection, PostAccept

\* SetDisconnect closes the socket as it leaves CONNECTED; a drop closes it too.
LEMMA SocketStep ==
    ASSUME ~SpecialPostFails, ~CallbackThrows, RefIInv, IOCounted, LifeInv, Next
    PROVE  SocketInv'
<1> USE ThreadsDisjoint, CtxDisjoint, NoClientFresh
        DEF RefIInv, TypeOK, ClientTypeOK, ContextTypeOK, ThreadTypeOK, Goto, Threads, Ctx,
            poolVars, connVars, ctxVars, ConnInv, AllocInv, OnePump, PumpOp, WorkPCs, TouchingPCs,
            EarlyPCs, PumpPCs, LifeInv, OpenedInv, Opened, PastPCs, FreshInv, SocketInv
<1>1. ASSUME NEW x \in Ctx, KernelCompletes(x), UNCHANGED acceptorVars
    PROVE  SocketInv'
  BY <1>1 DEF KernelCompletes
<1>2. ASSUME NEW x \in Ctx, KernelAborts(x), UNCHANGED acceptorVars
    PROVE  SocketInv'
  BY <1>2 DEF KernelAborts
<1>3. ASSUME NEW c \in Clients, GoesStale(c), UNCHANGED acceptorVars
    PROVE  SocketInv'
  BY <1>3 DEF GoesStale
<1>4. ASSUME NEW w \in Workers, NEW c \in Clients, RecvCompleted(w, c), UNCHANGED acceptorVars
    PROVE  SocketInv'
  BY <1>4 DEF RecvCompleted, Dequeue, ClientOf
<1>5. ASSUME NEW w \in Workers, NEW x \in IOContexts,
           SendCompleted(w, x), UNCHANGED acceptorVars
    PROVE  SocketInv'
  BY <1>5 DEF SendCompleted, Dequeue, ReleaseContext, ClientOf
<1>6. ASSUME NEW w \in Workers, NEW x \in IOContexts,
           SpecialCompleted(w, x), UNCHANGED acceptorVars
    PROVE  SocketInv'
  BY <1>6 DEF SpecialCompleted, Dequeue, ReleaseContext, ClientOf
<1>7. ASSUME NEW w \in Workers, NEW x \in Ctx, DequeueFaults(w, x), UNCHANGED acceptorVars
    PROVE  SocketInv'
  BY <1>7 DEF DequeueFaults, ClientOf
<1>8. ASSUME NEW w \in Workers, OnRecvCompletion(w), UNCHANGED acceptorVars
    PROVE  SocketInv'
  BY <1>8 DEF OnRecvCompletion, At, Tell
<1>9. ASSUME NEW w \in Workers, PostRecv(w, "postRecv", "issueRecv"), UNCHANGED acceptorVars
    PROVE  SocketInv'
  BY <1>9 DEF PostRecv, At
<1>10. ASSUME NEW w \in Workers,
           IssueRecv(w, "issueRecv", "release", "disconnect"), UNCHANGED acceptorVars
    PROVE  SocketInv'
  BY <1>10 DEF IssueRecv, At
<1>11. ASSUME NEW w \in Workers, SetDisconnect(w), UNCHANGED acceptorVars
    PROVE  SocketInv'
  BY <1>11 DEF SetDisconnect, At
<1>12. ASSUME NEW t \in Workers \cup AppThreads, DecreaseIOCount(t), UNCHANGED acceptorVars
    PROVE  SocketInv'
  BY <1>12 DEF DecreaseIOCount, At, Return
<1>13. ASSUME NEW t \in Workers \cup AppThreads, MarkClosed(t), UNCHANGED acceptorVars
    PROVE  SocketInv'
  BY <1>13 DEF MarkClosed, At
<1>14. ASSUME NEW t \in Workers \cup AppThreads, ReportClosed(t), UNCHANGED acceptorVars
    PROVE  SocketInv'
  BY <1>14 DEF ReportClosed, At, Return, Tell
<1>15. ASSUME NEW t \in Workers \cup AppThreads, RemoveClient(t), UNCHANGED acceptorVars
    PROVE  SocketInv'
  BY <1>15 DEF RemoveClient, At, Return, RemoveFromMap
<1>16. ASSUME NEW a \in AppThreads, NEW c \in Clients, FindClient(a, c), UNCHANGED acceptorVars
    PROVE  SocketInv'
  BY <1>16 DEF FindClient
<1>17. ASSUME NEW a \in AppThreads, PostSend(a), UNCHANGED acceptorVars
    PROVE  SocketInv'
  BY <1>17 DEF PostSend, At, UseContext, FreeContexts
<1>18. ASSUME NEW a \in AppThreads, CloseSocket(a), UNCHANGED acceptorVars
    PROVE  SocketInv'
  BY <1>18 DEF CloseSocket, At, PostSpecial, UseContext, FreeContexts
<1>19. ASSUME NEW a \in AppThreads, UnRef(a), UNCHANGED acceptorVars
    PROVE  SocketInv'
  BY <1>19 DEF UnRef, At
<1>20. ASSUME NEW t \in Threads, Faults(t), UNCHANGED acceptorVars
    PROVE  SocketInv'
  BY <1>20 DEF Faults
<1>21. ASSUME NEW c \in Clients, CheckStatus(c), UNCHANGED acceptorVars
    PROVE  SocketInv'
  BY <1>21 DEF CheckStatus, PostSpecial, UseContext, FreeContexts, Unused
<1>22. ASSUME NEW c \in Clients, CheckStatusFails(c), UNCHANGED acceptorVars
    PROVE  SocketInv'
  BY <1>22 DEF CheckStatusFails, PostSpecialFails
<1>23. ASSUME NEW w \in Workers, NEW c \in Clients, AcceptCompleted(w, c)
    PROVE  SocketInv'
  BY <1>23 DEF AcceptCompleted
<1>24. ASSUME NEW w \in Workers,
           PostRecv(w, "acceptPostRecv", "acceptIssueRecv"), UNCHANGED acceptorVars
    PROVE  SocketInv'
  BY <1>24 DEF PostRecv, At
<1>25. ASSUME NEW w \in Workers,
           IssueRecv(w, "acceptIssueRecv", "accepted", "acceptFailed"), UNCHANGED acceptorVars
    PROVE  SocketInv'
  BY <1>25 DEF IssueRecv, At
<1>26. ASSUME NEW w \in Workers, ReportConnected(w)
    PROVE  SocketInv'
  BY <1>26 DEF ReportConnected, At, Tell
<1>27. ASSUME NEW w \in Workers, DropClient(w)
    PROVE  SocketInv'
  BY <1>27 DEF DropClient, At
<1>28. ASSUME NEW w \in Workers, RemoveDropped(w)
    PROVE  SocketInv'
  BY <1>28 DEF RemoveDropped, RemoveFromMap
<1>29. ASSUME NEW w \in Workers, DecrementPending(w)
    PROVE  SocketInv'
  BY <1>29 DEF DecrementPending
<1>30. ASSUME NEW t \in Workers \cup {Starter}, AllocTcpClient(t)
    PROVE  SocketInv'
  BY <1>30 DEF AllocTcpClient
<1>31. ASSUME NEW t \in Workers \cup {Starter}, CannotPostAccept(t)
    PROVE  SocketInv'
  BY <1>31 DEF CannotPostAccept, AfterAccept
<1>32. ASSUME NEW t \in Workers \cup {Starter}, IncrementPending(t)
    PROVE  SocketInv'
  BY <1>32 DEF IncrementPending, At
<1>33. ASSUME NEW t \in Workers \cup {Starter}, AcceptExSucceeds(t)
    PROVE  SocketInv'
  BY <1>33 DEF AcceptExSucceeds, At, AfterAccept
<1>34. ASSUME NEW t \in Workers \cup {Starter}, AcceptExFails(t)
    PROVE  SocketInv'
  BY <1>34 DEF AcceptExFails, At, AfterAccept, RemoveFromMap
<1>35. ASSUME NEW t \in Workers \cup {Starter}, AcceptorFaults(t)
    PROVE  SocketInv'
  BY <1>35 DEF AcceptorFaults
<1>36. ASSUME StartFails
    PROVE  SocketInv'
  BY <1>36 DEF StartFails
<1>37. QED
    BY Next, <1>1, <1>2, <1>3, <1>4, <1>5, <1>6, <1>7, <1>8, <1>9, <1>10, <1>11, <1>12, <1>13,
       <1>14, <1>15, <1>16, <1>17, <1>18, <1>19, <1>20, <1>21, <1>22, <1>23, <1>24, <1>25, <1>26,
       <1>27, <1>28, <1>29, <1>30, <1>31, <1>32, <1>33, <1>34, <1>35, <1>36
       DEF Next, ClientNext, AcceptorNext, Kernel, TakeCompletion, CheckReleaseStep, ConnectionStep,
              AppStep, Assist, AcceptConnection, PostAccept

\* Before the first receive has completed, only a timeout operation can bring a
\* thread to CheckRelease, and that one has called SetDisconnect.
LEMMA EarlyReleaseStep ==
    ASSUME ~SpecialPostFails, ~CallbackThrows, RefIInv, IOCounted, LifeInv, Next
    PROVE  EarlyRelease'
<1> USE ThreadsDisjoint, CtxDisjoint, NoClientFresh
        DEF RefIInv, TypeOK, ClientTypeOK, ContextTypeOK, ThreadTypeOK, Goto, Threads, Ctx,
            poolVars, connVars, ctxVars, ConnInv, AllocInv, OnePump, PumpOp, WorkPCs, TouchingPCs,
            EarlyPCs, PumpPCs, NamedInv, RefInv, RefNamed, RefPCs, LifeInv, OpenedInv, Opened,
            PastPCs, SendNamed, SendOn, EarlyRelease
<1>1. ASSUME NEW x \in Ctx, KernelCompletes(x), UNCHANGED acceptorVars
    PROVE  EarlyRelease'
  BY <1>1 DEF KernelCompletes
<1>2. ASSUME NEW x \in Ctx, KernelAborts(x), UNCHANGED acceptorVars
    PROVE  EarlyRelease'
  BY <1>2 DEF KernelAborts
<1>3. ASSUME NEW c \in Clients, GoesStale(c), UNCHANGED acceptorVars
    PROVE  EarlyRelease'
  BY <1>3 DEF GoesStale
<1>4. ASSUME NEW w \in Workers, NEW c \in Clients, RecvCompleted(w, c), UNCHANGED acceptorVars
    PROVE  EarlyRelease'
  BY <1>4 DEF RecvCompleted, Dequeue, ClientOf
<1>5. ASSUME NEW w \in Workers, NEW x \in IOContexts,
           SendCompleted(w, x), UNCHANGED acceptorVars
    PROVE  EarlyRelease'
  BY <1>5 DEF SendCompleted, Dequeue, ReleaseContext, ClientOf
<1>6. ASSUME NEW w \in Workers, NEW x \in IOContexts,
           SpecialCompleted(w, x), UNCHANGED acceptorVars
    PROVE  EarlyRelease'
  BY <1>6 DEF SpecialCompleted, Dequeue, ReleaseContext, ClientOf
<1>7. ASSUME NEW w \in Workers, NEW x \in Ctx, DequeueFaults(w, x), UNCHANGED acceptorVars
    PROVE  EarlyRelease'
  BY <1>7 DEF DequeueFaults, ClientOf
<1>8. ASSUME NEW w \in Workers, OnRecvCompletion(w), UNCHANGED acceptorVars
    PROVE  EarlyRelease'
  BY <1>8 DEF OnRecvCompletion, At, Tell
<1>9. ASSUME NEW w \in Workers, PostRecv(w, "postRecv", "issueRecv"), UNCHANGED acceptorVars
    PROVE  EarlyRelease'
  BY <1>9 DEF PostRecv, At
<1>10. ASSUME NEW w \in Workers,
           IssueRecv(w, "issueRecv", "release", "disconnect"), UNCHANGED acceptorVars
    PROVE  EarlyRelease'
  BY <1>10 DEF IssueRecv, At
<1>11. ASSUME NEW w \in Workers, SetDisconnect(w), UNCHANGED acceptorVars
    PROVE  EarlyRelease'
  BY <1>11 DEF SetDisconnect, At
<1>12. ASSUME NEW t \in Workers \cup AppThreads, DecreaseIOCount(t), UNCHANGED acceptorVars
    PROVE  EarlyRelease'
  BY <1>12 DEF DecreaseIOCount, At, Return
<1>13. ASSUME NEW t \in Workers \cup AppThreads, MarkClosed(t), UNCHANGED acceptorVars
    PROVE  EarlyRelease'
  BY <1>13 DEF MarkClosed, At
<1>14. ASSUME NEW t \in Workers \cup AppThreads, ReportClosed(t), UNCHANGED acceptorVars
    PROVE  EarlyRelease'
  BY <1>14 DEF ReportClosed, At, Return, Tell
<1>15. ASSUME NEW t \in Workers \cup AppThreads, RemoveClient(t), UNCHANGED acceptorVars
    PROVE  EarlyRelease'
  BY <1>15 DEF RemoveClient, At, Return, RemoveFromMap
<1>16. ASSUME NEW a \in AppThreads, NEW c \in Clients, FindClient(a, c), UNCHANGED acceptorVars
    PROVE  EarlyRelease'
  BY <1>16 DEF FindClient
<1>17. ASSUME NEW a \in AppThreads, PostSend(a), UNCHANGED acceptorVars
    PROVE  EarlyRelease'
  BY <1>17 DEF PostSend, At, UseContext, FreeContexts
<1>18. ASSUME NEW a \in AppThreads, CloseSocket(a), UNCHANGED acceptorVars
    PROVE  EarlyRelease'
  BY <1>18 DEF CloseSocket, At, PostSpecial, UseContext, FreeContexts
<1>19. ASSUME NEW a \in AppThreads, UnRef(a), UNCHANGED acceptorVars
    PROVE  EarlyRelease'
  BY <1>19 DEF UnRef, At
<1>20. ASSUME NEW t \in Threads, Faults(t), UNCHANGED acceptorVars
    PROVE  EarlyRelease'
  BY <1>20 DEF Faults
<1>21. ASSUME NEW c \in Clients, CheckStatus(c), UNCHANGED acceptorVars
    PROVE  EarlyRelease'
  BY <1>21 DEF CheckStatus, PostSpecial, UseContext, FreeContexts, Unused
<1>22. ASSUME NEW c \in Clients, CheckStatusFails(c), UNCHANGED acceptorVars
    PROVE  EarlyRelease'
  BY <1>22 DEF CheckStatusFails, PostSpecialFails
<1>23. ASSUME NEW w \in Workers, NEW c \in Clients, AcceptCompleted(w, c)
    PROVE  EarlyRelease'
  BY <1>23 DEF AcceptCompleted
<1>24. ASSUME NEW w \in Workers,
           PostRecv(w, "acceptPostRecv", "acceptIssueRecv"), UNCHANGED acceptorVars
    PROVE  EarlyRelease'
  BY <1>24 DEF PostRecv, At
<1>25. ASSUME NEW w \in Workers,
           IssueRecv(w, "acceptIssueRecv", "accepted", "acceptFailed"), UNCHANGED acceptorVars
    PROVE  EarlyRelease'
  BY <1>25 DEF IssueRecv, At
<1>26. ASSUME NEW w \in Workers, ReportConnected(w)
    PROVE  EarlyRelease'
  BY <1>26 DEF ReportConnected, At, Tell
<1>27. ASSUME NEW w \in Workers, DropClient(w)
    PROVE  EarlyRelease'
  BY <1>27 DEF DropClient, At
<1>28. ASSUME NEW w \in Workers, RemoveDropped(w)
    PROVE  EarlyRelease'
  BY <1>28 DEF RemoveDropped, RemoveFromMap
<1>29. ASSUME NEW w \in Workers, DecrementPending(w)
    PROVE  EarlyRelease'
  BY <1>29 DEF DecrementPending
<1>30. ASSUME NEW t \in Workers \cup {Starter}, AllocTcpClient(t)
    PROVE  EarlyRelease'
  BY <1>30 DEF AllocTcpClient
<1>31. ASSUME NEW t \in Workers \cup {Starter}, CannotPostAccept(t)
    PROVE  EarlyRelease'
  BY <1>31 DEF CannotPostAccept, AfterAccept
<1>32. ASSUME NEW t \in Workers \cup {Starter}, IncrementPending(t)
    PROVE  EarlyRelease'
  BY <1>32 DEF IncrementPending, At
<1>33. ASSUME NEW t \in Workers \cup {Starter}, AcceptExSucceeds(t)
    PROVE  EarlyRelease'
  BY <1>33 DEF AcceptExSucceeds, At, AfterAccept
<1>34. ASSUME NEW t \in Workers \cup {Starter}, AcceptExFails(t)
    PROVE  EarlyRelease'
  BY <1>34 DEF AcceptExFails, At, AfterAccept, RemoveFromMap
<1>35. ASSUME NEW t \in Workers \cup {Starter}, AcceptorFaults(t)
    PROVE  EarlyRelease'
  BY <1>35 DEF AcceptorFaults
<1>36. ASSUME StartFails
    PROVE  EarlyRelease'
  BY <1>36 DEF StartFails
<1>37. QED
    BY Next, <1>1, <1>2, <1>3, <1>4, <1>5, <1>6, <1>7, <1>8, <1>9, <1>10, <1>11, <1>12, <1>13,
       <1>14, <1>15, <1>16, <1>17, <1>18, <1>19, <1>20, <1>21, <1>22, <1>23, <1>24, <1>25, <1>26,
       <1>27, <1>28, <1>29, <1>30, <1>31, <1>32, <1>33, <1>34, <1>35, <1>36
       DEF Next, ClientNext, AcceptorNext, Kernel, TakeCompletion, CheckReleaseStep, ConnectionStep,
              AppStep, Assist, AcceptConnection, PostAccept

\* The receive is handed from the kernel to a worker and back until somebody calls
\* SetDisconnect.
LEMMA KeptStep ==
    ASSUME ~SpecialPostFails, ~CallbackThrows, RefIInv, IOCounted, LifeInv, Next
    PROVE  KeptInv'
<1> USE ThreadsDisjoint, CtxDisjoint, NoClientFresh
        DEF RefIInv, TypeOK, ClientTypeOK, ContextTypeOK, ThreadTypeOK, Goto, Threads, Ctx,
            poolVars, connVars, ctxVars, ConnInv, AllocInv, OnePump, PumpOp, WorkPCs, TouchingPCs,
            EarlyPCs, PumpPCs, LifeInv, FreshInv, OpenedInv, Opened, PastPCs, KeptInv, Kept,
            KeeperPCs
<1>1. ASSUME NEW x \in Ctx, KernelCompletes(x), UNCHANGED acceptorVars
    PROVE  KeptInv'
  BY <1>1 DEF KernelCompletes
<1>2. ASSUME NEW x \in Ctx, KernelAborts(x), UNCHANGED acceptorVars
    PROVE  KeptInv'
  BY <1>2 DEF KernelAborts
<1>3. ASSUME NEW c \in Clients, GoesStale(c), UNCHANGED acceptorVars
    PROVE  KeptInv'
  BY <1>3 DEF GoesStale
<1>4. ASSUME NEW w \in Workers, NEW c \in Clients, RecvCompleted(w, c), UNCHANGED acceptorVars
    PROVE  KeptInv'
  BY <1>4 DEF RecvCompleted, Dequeue, ClientOf
<1>5. ASSUME NEW w \in Workers, NEW x \in IOContexts,
           SendCompleted(w, x), UNCHANGED acceptorVars
    PROVE  KeptInv'
  BY <1>5, SMTT(30) DEF SendCompleted, Dequeue, ReleaseContext, ClientOf
<1>6. ASSUME NEW w \in Workers, NEW x \in IOContexts,
           SpecialCompleted(w, x), UNCHANGED acceptorVars
    PROVE  KeptInv'
  BY <1>6 DEF SpecialCompleted, Dequeue, ReleaseContext, ClientOf
<1>7. ASSUME NEW w \in Workers, NEW x \in Ctx, DequeueFaults(w, x), UNCHANGED acceptorVars
    PROVE  KeptInv'
  BY <1>7 DEF DequeueFaults, ClientOf
<1>8. ASSUME NEW w \in Workers, OnRecvCompletion(w), UNCHANGED acceptorVars
    PROVE  KeptInv'
  BY <1>8 DEF OnRecvCompletion, At, Tell
<1>9. ASSUME NEW w \in Workers, PostRecv(w, "postRecv", "issueRecv"), UNCHANGED acceptorVars
    PROVE  KeptInv'
  BY <1>9 DEF PostRecv, At
<1>10. ASSUME NEW w \in Workers,
           IssueRecv(w, "issueRecv", "release", "disconnect"), UNCHANGED acceptorVars
    PROVE  KeptInv'
  BY <1>10 DEF IssueRecv, At
<1>11. ASSUME NEW w \in Workers, SetDisconnect(w), UNCHANGED acceptorVars
    PROVE  KeptInv'
  BY <1>11 DEF SetDisconnect, At
<1>12. ASSUME NEW t \in Workers \cup AppThreads, DecreaseIOCount(t), UNCHANGED acceptorVars
    PROVE  KeptInv'
  BY <1>12 DEF DecreaseIOCount, At, Return
<1>13. ASSUME NEW t \in Workers \cup AppThreads, MarkClosed(t), UNCHANGED acceptorVars
    PROVE  KeptInv'
  BY <1>13 DEF MarkClosed, At
<1>14. ASSUME NEW t \in Workers \cup AppThreads, ReportClosed(t), UNCHANGED acceptorVars
    PROVE  KeptInv'
  BY <1>14 DEF ReportClosed, At, Return, Tell
<1>15. ASSUME NEW t \in Workers \cup AppThreads, RemoveClient(t), UNCHANGED acceptorVars
    PROVE  KeptInv'
  BY <1>15 DEF RemoveClient, At, Return, RemoveFromMap
<1>16. ASSUME NEW a \in AppThreads, NEW c \in Clients, FindClient(a, c), UNCHANGED acceptorVars
    PROVE  KeptInv'
  BY <1>16 DEF FindClient
<1>17. ASSUME NEW a \in AppThreads, PostSend(a), UNCHANGED acceptorVars
    PROVE  KeptInv'
  BY <1>17 DEF PostSend, At, UseContext, FreeContexts
<1>18. ASSUME NEW a \in AppThreads, CloseSocket(a), UNCHANGED acceptorVars
    PROVE  KeptInv'
  BY <1>18 DEF CloseSocket, At, PostSpecial, UseContext, FreeContexts
<1>19. ASSUME NEW a \in AppThreads, UnRef(a), UNCHANGED acceptorVars
    PROVE  KeptInv'
  BY <1>19 DEF UnRef, At
<1>20. ASSUME NEW t \in Threads, Faults(t), UNCHANGED acceptorVars
    PROVE  KeptInv'
  BY <1>20 DEF Faults
<1>21. ASSUME NEW c \in Clients, CheckStatus(c), UNCHANGED acceptorVars
    PROVE  KeptInv'
  BY <1>21 DEF CheckStatus, PostSpecial, UseContext, FreeContexts, Unused
<1>22. ASSUME NEW c \in Clients, CheckStatusFails(c), UNCHANGED acceptorVars
    PROVE  KeptInv'
  BY <1>22 DEF CheckStatusFails, PostSpecialFails
<1>23. ASSUME NEW w \in Workers, NEW c \in Clients, AcceptCompleted(w, c)
    PROVE  KeptInv'
  BY <1>23, SMTT(30) DEF AcceptCompleted
<1>24. ASSUME NEW w \in Workers,
           PostRecv(w, "acceptPostRecv", "acceptIssueRecv"), UNCHANGED acceptorVars
    PROVE  KeptInv'
  BY <1>24 DEF PostRecv, At
<1>25. ASSUME NEW w \in Workers,
           IssueRecv(w, "acceptIssueRecv", "accepted", "acceptFailed"), UNCHANGED acceptorVars
    PROVE  KeptInv'
  BY <1>25 DEF IssueRecv, At
<1>26. ASSUME NEW w \in Workers, ReportConnected(w)
    PROVE  KeptInv'
  BY <1>26 DEF ReportConnected, At, Tell
<1>27. ASSUME NEW w \in Workers, DropClient(w)
    PROVE  KeptInv'
  BY <1>27 DEF DropClient, At
<1>28. ASSUME NEW w \in Workers, RemoveDropped(w)
    PROVE  KeptInv'
  BY <1>28 DEF RemoveDropped, RemoveFromMap
<1>29. ASSUME NEW w \in Workers, DecrementPending(w)
    PROVE  KeptInv'
  BY <1>29 DEF DecrementPending
<1>30. ASSUME NEW t \in Workers \cup {Starter}, AllocTcpClient(t)
    PROVE  KeptInv'
  BY <1>30 DEF AllocTcpClient
<1>31. ASSUME NEW t \in Workers \cup {Starter}, CannotPostAccept(t)
    PROVE  KeptInv'
  BY <1>31 DEF CannotPostAccept, AfterAccept
<1>32. ASSUME NEW t \in Workers \cup {Starter}, IncrementPending(t)
    PROVE  KeptInv'
  BY <1>32 DEF IncrementPending, At
<1>33. ASSUME NEW t \in Workers \cup {Starter}, AcceptExSucceeds(t)
    PROVE  KeptInv'
  BY <1>33 DEF AcceptExSucceeds, At, AfterAccept
<1>34. ASSUME NEW t \in Workers \cup {Starter}, AcceptExFails(t)
    PROVE  KeptInv'
  BY <1>34 DEF AcceptExFails, At, AfterAccept, RemoveFromMap
<1>35. ASSUME NEW t \in Workers \cup {Starter}, AcceptorFaults(t)
    PROVE  KeptInv'
  BY <1>35 DEF AcceptorFaults
<1>36. ASSUME StartFails
    PROVE  KeptInv'
  BY <1>36 DEF StartFails
<1>37. QED
    BY Next, <1>1, <1>2, <1>3, <1>4, <1>5, <1>6, <1>7, <1>8, <1>9, <1>10, <1>11, <1>12, <1>13,
       <1>14, <1>15, <1>16, <1>17, <1>18, <1>19, <1>20, <1>21, <1>22, <1>23, <1>24, <1>25, <1>26,
       <1>27, <1>28, <1>29, <1>30, <1>31, <1>32, <1>33, <1>34, <1>35, <1>36
       DEF Next, ClientNext, AcceptorNext, Kernel, TakeCompletion, CheckReleaseStep, ConnectionStep,
              AppStep, Assist, AcceptConnection, PostAccept

\* CLOSED comes with the last count, and a receive under way is one.
LEMMA ReceivingStep ==
    ASSUME ~SpecialPostFails, ~CallbackThrows, RefIInv, IOCounted, LifeInv, Next
    PROVE  ReceivingInv'
<1> USE ThreadsDisjoint, CtxDisjoint, NoClientFresh
        DEF RefIInv, TypeOK, ClientTypeOK, ContextTypeOK, ThreadTypeOK, Goto, Threads, Ctx,
            poolVars, connVars, ctxVars, ConnInv, AllocInv, OnePump, PumpIO, PumpOp, WorkPCs,
            TouchingPCs, EarlyPCs, PumpPCs, LifeInv, OpenedInv, Opened, PastPCs, FreshInv,
            QuietInv, Quiet, Over, EndPCs, BusyPCs, ReceivingInv, Receiving
<1>1. ASSUME NEW x \in Ctx, KernelCompletes(x), UNCHANGED acceptorVars
    PROVE  ReceivingInv'
  BY <1>1 DEF KernelCompletes
<1>2. ASSUME NEW x \in Ctx, KernelAborts(x), UNCHANGED acceptorVars
    PROVE  ReceivingInv'
  BY <1>2 DEF KernelAborts
<1>3. ASSUME NEW c \in Clients, GoesStale(c), UNCHANGED acceptorVars
    PROVE  ReceivingInv'
  BY <1>3 DEF GoesStale
<1>4. ASSUME NEW w \in Workers, NEW c \in Clients, RecvCompleted(w, c), UNCHANGED acceptorVars
    PROVE  ReceivingInv'
  BY <1>4 DEF RecvCompleted, Dequeue, ClientOf
<1>5. ASSUME NEW w \in Workers, NEW x \in IOContexts,
           SendCompleted(w, x), UNCHANGED acceptorVars
    PROVE  ReceivingInv'
  BY <1>5 DEF SendCompleted, Dequeue, ReleaseContext, ClientOf
<1>6. ASSUME NEW w \in Workers, NEW x \in IOContexts,
           SpecialCompleted(w, x), UNCHANGED acceptorVars
    PROVE  ReceivingInv'
  BY <1>6 DEF SpecialCompleted, Dequeue, ReleaseContext, ClientOf
<1>7. ASSUME NEW w \in Workers, NEW x \in Ctx, DequeueFaults(w, x), UNCHANGED acceptorVars
    PROVE  ReceivingInv'
  BY <1>7 DEF DequeueFaults, ClientOf
<1>8. ASSUME NEW w \in Workers, OnRecvCompletion(w), UNCHANGED acceptorVars
    PROVE  ReceivingInv'
  BY <1>8 DEF OnRecvCompletion, At, Tell
<1>9. ASSUME NEW w \in Workers, PostRecv(w, "postRecv", "issueRecv"), UNCHANGED acceptorVars
    PROVE  ReceivingInv'
  BY <1>9 DEF PostRecv, At
<1>10. ASSUME NEW w \in Workers,
           IssueRecv(w, "issueRecv", "release", "disconnect"), UNCHANGED acceptorVars
    PROVE  ReceivingInv'
  BY <1>10 DEF IssueRecv, At
<1>11. ASSUME NEW w \in Workers, SetDisconnect(w), UNCHANGED acceptorVars
    PROVE  ReceivingInv'
  BY <1>11 DEF SetDisconnect, At
<1>12. ASSUME NEW t \in Workers \cup AppThreads, DecreaseIOCount(t), UNCHANGED acceptorVars
    PROVE  ReceivingInv'
  BY <1>12 DEF DecreaseIOCount, At, Return
<1>13. ASSUME NEW t \in Workers \cup AppThreads, MarkClosed(t), UNCHANGED acceptorVars
    PROVE  ReceivingInv'
  BY <1>13 DEF MarkClosed, At
<1>14. ASSUME NEW t \in Workers \cup AppThreads, ReportClosed(t), UNCHANGED acceptorVars
    PROVE  ReceivingInv'
  BY <1>14 DEF ReportClosed, At, Return, Tell
<1>15. ASSUME NEW t \in Workers \cup AppThreads, RemoveClient(t), UNCHANGED acceptorVars
    PROVE  ReceivingInv'
  BY <1>15 DEF RemoveClient, At, Return, RemoveFromMap
<1>16. ASSUME NEW a \in AppThreads, NEW c \in Clients, FindClient(a, c), UNCHANGED acceptorVars
    PROVE  ReceivingInv'
  BY <1>16 DEF FindClient
<1>17. ASSUME NEW a \in AppThreads, PostSend(a), UNCHANGED acceptorVars
    PROVE  ReceivingInv'
  BY <1>17 DEF PostSend, At, UseContext, FreeContexts
<1>18. ASSUME NEW a \in AppThreads, CloseSocket(a), UNCHANGED acceptorVars
    PROVE  ReceivingInv'
  BY <1>18 DEF CloseSocket, At, PostSpecial, UseContext, FreeContexts
<1>19. ASSUME NEW a \in AppThreads, UnRef(a), UNCHANGED acceptorVars
    PROVE  ReceivingInv'
  BY <1>19 DEF UnRef, At
<1>20. ASSUME NEW t \in Threads, Faults(t), UNCHANGED acceptorVars
    PROVE  ReceivingInv'
  BY <1>20 DEF Faults
<1>21. ASSUME NEW c \in Clients, CheckStatus(c), UNCHANGED acceptorVars
    PROVE  ReceivingInv'
  BY <1>21 DEF CheckStatus, PostSpecial, UseContext, FreeContexts, Unused
<1>22. ASSUME NEW c \in Clients, CheckStatusFails(c), UNCHANGED acceptorVars
    PROVE  ReceivingInv'
  BY <1>22 DEF CheckStatusFails, PostSpecialFails
<1>23. ASSUME NEW w \in Workers, NEW c \in Clients, AcceptCompleted(w, c)
    PROVE  ReceivingInv'
  BY <1>23 DEF AcceptCompleted
<1>24. ASSUME NEW w \in Workers,
           PostRecv(w, "acceptPostRecv", "acceptIssueRecv"), UNCHANGED acceptorVars
    PROVE  ReceivingInv'
  BY <1>24 DEF PostRecv, At
<1>25. ASSUME NEW w \in Workers,
           IssueRecv(w, "acceptIssueRecv", "accepted", "acceptFailed"), UNCHANGED acceptorVars
    PROVE  ReceivingInv'
  BY <1>25 DEF IssueRecv, At
<1>26. ASSUME NEW w \in Workers, ReportConnected(w)
    PROVE  ReceivingInv'
  BY <1>26 DEF ReportConnected, At, Tell
<1>27. ASSUME NEW w \in Workers, DropClient(w)
    PROVE  ReceivingInv'
  BY <1>27 DEF DropClient, At
<1>28. ASSUME NEW w \in Workers, RemoveDropped(w)
    PROVE  ReceivingInv'
  BY <1>28 DEF RemoveDropped, RemoveFromMap
<1>29. ASSUME NEW w \in Workers, DecrementPending(w)
    PROVE  ReceivingInv'
  BY <1>29 DEF DecrementPending
<1>30. ASSUME NEW t \in Workers \cup {Starter}, AllocTcpClient(t)
    PROVE  ReceivingInv'
  BY <1>30 DEF AllocTcpClient
<1>31. ASSUME NEW t \in Workers \cup {Starter}, CannotPostAccept(t)
    PROVE  ReceivingInv'
  BY <1>31 DEF CannotPostAccept, AfterAccept
<1>32. ASSUME NEW t \in Workers \cup {Starter}, IncrementPending(t)
    PROVE  ReceivingInv'
  BY <1>32 DEF IncrementPending, At
<1>33. ASSUME NEW t \in Workers \cup {Starter}, AcceptExSucceeds(t)
    PROVE  ReceivingInv'
  BY <1>33 DEF AcceptExSucceeds, At, AfterAccept
<1>34. ASSUME NEW t \in Workers \cup {Starter}, AcceptExFails(t)
    PROVE  ReceivingInv'
  BY <1>34 DEF AcceptExFails, At, AfterAccept, RemoveFromMap
<1>35. ASSUME NEW t \in Workers \cup {Starter}, AcceptorFaults(t)
    PROVE  ReceivingInv'
  BY <1>35 DEF AcceptorFaults
<1>36. ASSUME StartFails
    PROVE  ReceivingInv'
  BY <1>36 DEF StartFails
<1>37. QED
    BY Next, <1>1, <1>2, <1>3, <1>4, <1>5, <1>6, <1>7, <1>8, <1>9, <1>10, <1>11, <1>12, <1>13,
       <1>14, <1>15, <1>16, <1>17, <1>18, <1>19, <1>20, <1>21, <1>22, <1>23, <1>24, <1>25, <1>26,
       <1>27, <1>28, <1>29, <1>30, <1>31, <1>32, <1>33, <1>34, <1>35, <1>36
       DEF Next, ClientNext, AcceptorNext, Kernel, TakeCompletion, CheckReleaseStep, ConnectionStep,
              AppStep, Assist, AcceptConnection, PostAccept

\* The compare-exchange lets one thread through.
LEMMA ClosingStep ==
    ASSUME ~SpecialPostFails, ~CallbackThrows, RefIInv, IOCounted, LifeInv, Next
    PROVE  ClosingInv'
<1> USE ThreadsDisjoint, CtxDisjoint, NoClientFresh
        DEF RefIInv, TypeOK, ClientTypeOK, ContextTypeOK, ThreadTypeOK, Goto, Threads, Ctx,
            poolVars, connVars, ctxVars, ConnInv, AllocInv, OnePump, PumpOp, WorkPCs, TouchingPCs,
            EarlyPCs, PumpPCs, LifeInv, OpenedInv, Opened, PastPCs, ClosingInv
<1>1. ASSUME NEW x \in Ctx, KernelCompletes(x), UNCHANGED acceptorVars
    PROVE  ClosingInv'
  BY <1>1 DEF KernelCompletes
<1>2. ASSUME NEW x \in Ctx, KernelAborts(x), UNCHANGED acceptorVars
    PROVE  ClosingInv'
  BY <1>2 DEF KernelAborts
<1>3. ASSUME NEW c \in Clients, GoesStale(c), UNCHANGED acceptorVars
    PROVE  ClosingInv'
  BY <1>3 DEF GoesStale
<1>4. ASSUME NEW w \in Workers, NEW c \in Clients, RecvCompleted(w, c), UNCHANGED acceptorVars
    PROVE  ClosingInv'
  BY <1>4 DEF RecvCompleted, Dequeue, ClientOf
<1>5. ASSUME NEW w \in Workers, NEW x \in IOContexts,
           SendCompleted(w, x), UNCHANGED acceptorVars
    PROVE  ClosingInv'
  BY <1>5 DEF SendCompleted, Dequeue, ReleaseContext, ClientOf
<1>6. ASSUME NEW w \in Workers, NEW x \in IOContexts,
           SpecialCompleted(w, x), UNCHANGED acceptorVars
    PROVE  ClosingInv'
  BY <1>6 DEF SpecialCompleted, Dequeue, ReleaseContext, ClientOf
<1>7. ASSUME NEW w \in Workers, NEW x \in Ctx, DequeueFaults(w, x), UNCHANGED acceptorVars
    PROVE  ClosingInv'
  BY <1>7 DEF DequeueFaults, ClientOf
<1>8. ASSUME NEW w \in Workers, OnRecvCompletion(w), UNCHANGED acceptorVars
    PROVE  ClosingInv'
  BY <1>8 DEF OnRecvCompletion, At, Tell
<1>9. ASSUME NEW w \in Workers, PostRecv(w, "postRecv", "issueRecv"), UNCHANGED acceptorVars
    PROVE  ClosingInv'
  BY <1>9 DEF PostRecv, At
<1>10. ASSUME NEW w \in Workers,
           IssueRecv(w, "issueRecv", "release", "disconnect"), UNCHANGED acceptorVars
    PROVE  ClosingInv'
  BY <1>10 DEF IssueRecv, At
<1>11. ASSUME NEW w \in Workers, SetDisconnect(w), UNCHANGED acceptorVars
    PROVE  ClosingInv'
  BY <1>11 DEF SetDisconnect, At
<1>12. ASSUME NEW t \in Workers \cup AppThreads, DecreaseIOCount(t), UNCHANGED acceptorVars
    PROVE  ClosingInv'
  BY <1>12 DEF DecreaseIOCount, At, Return
<1>13. ASSUME NEW t \in Workers \cup AppThreads, MarkClosed(t), UNCHANGED acceptorVars
    PROVE  ClosingInv'
  BY <1>13 DEF MarkClosed, At
<1>14. ASSUME NEW t \in Workers \cup AppThreads, ReportClosed(t), UNCHANGED acceptorVars
    PROVE  ClosingInv'
  BY <1>14 DEF ReportClosed, At, Return, Tell
<1>15. ASSUME NEW t \in Workers \cup AppThreads, RemoveClient(t), UNCHANGED acceptorVars
    PROVE  ClosingInv'
  BY <1>15 DEF RemoveClient, At, Return, RemoveFromMap
<1>16. ASSUME NEW a \in AppThreads, NEW c \in Clients, FindClient(a, c), UNCHANGED acceptorVars
    PROVE  ClosingInv'
  BY <1>16 DEF FindClient
<1>17. ASSUME NEW a \in AppThreads, PostSend(a), UNCHANGED acceptorVars
    PROVE  ClosingInv'
  BY <1>17 DEF PostSend, At, UseContext, FreeContexts
<1>18. ASSUME NEW a \in AppThreads, CloseSocket(a), UNCHANGED acceptorVars
    PROVE  ClosingInv'
  BY <1>18 DEF CloseSocket, At, PostSpecial, UseContext, FreeContexts
<1>19. ASSUME NEW a \in AppThreads, UnRef(a), UNCHANGED acceptorVars
    PROVE  ClosingInv'
  BY <1>19 DEF UnRef, At
<1>20. ASSUME NEW t \in Threads, Faults(t), UNCHANGED acceptorVars
    PROVE  ClosingInv'
  BY <1>20 DEF Faults
<1>21. ASSUME NEW c \in Clients, CheckStatus(c), UNCHANGED acceptorVars
    PROVE  ClosingInv'
  BY <1>21 DEF CheckStatus, PostSpecial, UseContext, FreeContexts, Unused
<1>22. ASSUME NEW c \in Clients, CheckStatusFails(c), UNCHANGED acceptorVars
    PROVE  ClosingInv'
  BY <1>22 DEF CheckStatusFails, PostSpecialFails
<1>23. ASSUME NEW w \in Workers, NEW c \in Clients, AcceptCompleted(w, c)
    PROVE  ClosingInv'
  BY <1>23 DEF AcceptCompleted
<1>24. ASSUME NEW w \in Workers,
           PostRecv(w, "acceptPostRecv", "acceptIssueRecv"), UNCHANGED acceptorVars
    PROVE  ClosingInv'
  BY <1>24 DEF PostRecv, At
<1>25. ASSUME NEW w \in Workers,
           IssueRecv(w, "acceptIssueRecv", "accepted", "acceptFailed"), UNCHANGED acceptorVars
    PROVE  ClosingInv'
  BY <1>25 DEF IssueRecv, At
<1>26. ASSUME NEW w \in Workers, ReportConnected(w)
    PROVE  ClosingInv'
  BY <1>26 DEF ReportConnected, At, Tell
<1>27. ASSUME NEW w \in Workers, DropClient(w)
    PROVE  ClosingInv'
  BY <1>27 DEF DropClient, At
<1>28. ASSUME NEW w \in Workers, RemoveDropped(w)
    PROVE  ClosingInv'
  BY <1>28 DEF RemoveDropped, RemoveFromMap
<1>29. ASSUME NEW w \in Workers, DecrementPending(w)
    PROVE  ClosingInv'
  BY <1>29 DEF DecrementPending
<1>30. ASSUME NEW t \in Workers \cup {Starter}, AllocTcpClient(t)
    PROVE  ClosingInv'
  BY <1>30 DEF AllocTcpClient
<1>31. ASSUME NEW t \in Workers \cup {Starter}, CannotPostAccept(t)
    PROVE  ClosingInv'
  BY <1>31 DEF CannotPostAccept, AfterAccept
<1>32. ASSUME NEW t \in Workers \cup {Starter}, IncrementPending(t)
    PROVE  ClosingInv'
  BY <1>32 DEF IncrementPending, At
<1>33. ASSUME NEW t \in Workers \cup {Starter}, AcceptExSucceeds(t)
    PROVE  ClosingInv'
  BY <1>33 DEF AcceptExSucceeds, At, AfterAccept
<1>34. ASSUME NEW t \in Workers \cup {Starter}, AcceptExFails(t)
    PROVE  ClosingInv'
  BY <1>34 DEF AcceptExFails, At, AfterAccept, RemoveFromMap
<1>35. ASSUME NEW t \in Workers \cup {Starter}, AcceptorFaults(t)
    PROVE  ClosingInv'
  BY <1>35 DEF AcceptorFaults
<1>36. ASSUME StartFails
    PROVE  ClosingInv'
  BY <1>36 DEF StartFails
<1>37. QED
    BY Next, <1>1, <1>2, <1>3, <1>4, <1>5, <1>6, <1>7, <1>8, <1>9, <1>10, <1>11, <1>12, <1>13,
       <1>14, <1>15, <1>16, <1>17, <1>18, <1>19, <1>20, <1>21, <1>22, <1>23, <1>24, <1>25, <1>26,
       <1>27, <1>28, <1>29, <1>30, <1>31, <1>32, <1>33, <1>34, <1>35, <1>36
       DEF Next, ClientNext, AcceptorNext, Kernel, TakeCompletion, CheckReleaseStep, ConnectionStep,
              AppStep, Assist, AcceptConnection, PostAccept

\* Only a closed client is removed, marked or freed.
LEMMA EndStep ==
    ASSUME ~SpecialPostFails, ~CallbackThrows, RefIInv, IOCounted, LifeInv, Next
    PROVE  EndInv'
<1> USE ThreadsDisjoint, CtxDisjoint, NoClientFresh
        DEF RefIInv, TypeOK, ClientTypeOK, ContextTypeOK, ThreadTypeOK, Goto, Threads, Ctx,
            poolVars, connVars, ctxVars, ConnInv, AllocInv, OnePump, PumpIO, PumpOp, WorkPCs,
            TouchingPCs, EarlyPCs, PumpPCs, LifeInv, OpenedInv, Opened, PastPCs, FreshInv,
            QuietInv, Quiet, Over, EndPCs, BusyPCs, ClosingInv, EndInv
<1>1. ASSUME NEW x \in Ctx, KernelCompletes(x), UNCHANGED acceptorVars
    PROVE  EndInv'
  BY <1>1 DEF KernelCompletes
<1>2. ASSUME NEW x \in Ctx, KernelAborts(x), UNCHANGED acceptorVars
    PROVE  EndInv'
  BY <1>2 DEF KernelAborts
<1>3. ASSUME NEW c \in Clients, GoesStale(c), UNCHANGED acceptorVars
    PROVE  EndInv'
  BY <1>3 DEF GoesStale
<1>4. ASSUME NEW w \in Workers, NEW c \in Clients, RecvCompleted(w, c), UNCHANGED acceptorVars
    PROVE  EndInv'
  BY <1>4 DEF RecvCompleted, Dequeue, ClientOf
<1>5. ASSUME NEW w \in Workers, NEW x \in IOContexts,
           SendCompleted(w, x), UNCHANGED acceptorVars
    PROVE  EndInv'
  BY <1>5 DEF SendCompleted, Dequeue, ReleaseContext, ClientOf
<1>6. ASSUME NEW w \in Workers, NEW x \in IOContexts,
           SpecialCompleted(w, x), UNCHANGED acceptorVars
    PROVE  EndInv'
  BY <1>6 DEF SpecialCompleted, Dequeue, ReleaseContext, ClientOf
<1>7. ASSUME NEW w \in Workers, NEW x \in Ctx, DequeueFaults(w, x), UNCHANGED acceptorVars
    PROVE  EndInv'
  BY <1>7 DEF DequeueFaults, ClientOf
<1>8. ASSUME NEW w \in Workers, OnRecvCompletion(w), UNCHANGED acceptorVars
    PROVE  EndInv'
  BY <1>8 DEF OnRecvCompletion, At, Tell
<1>9. ASSUME NEW w \in Workers, PostRecv(w, "postRecv", "issueRecv"), UNCHANGED acceptorVars
    PROVE  EndInv'
  BY <1>9 DEF PostRecv, At
<1>10. ASSUME NEW w \in Workers,
           IssueRecv(w, "issueRecv", "release", "disconnect"), UNCHANGED acceptorVars
    PROVE  EndInv'
  BY <1>10 DEF IssueRecv, At
<1>11. ASSUME NEW w \in Workers, SetDisconnect(w), UNCHANGED acceptorVars
    PROVE  EndInv'
  BY <1>11 DEF SetDisconnect, At
<1>12. ASSUME NEW t \in Workers \cup AppThreads, DecreaseIOCount(t), UNCHANGED acceptorVars
    PROVE  EndInv'
  BY <1>12 DEF DecreaseIOCount, At, Return
<1>13. ASSUME NEW t \in Workers \cup AppThreads, MarkClosed(t), UNCHANGED acceptorVars
    PROVE  EndInv'
  BY <1>13 DEF MarkClosed, At
<1>14. ASSUME NEW t \in Workers \cup AppThreads, ReportClosed(t), UNCHANGED acceptorVars
    PROVE  EndInv'
  BY <1>14 DEF ReportClosed, At, Return, Tell
<1>15. ASSUME NEW t \in Workers \cup AppThreads, RemoveClient(t), UNCHANGED acceptorVars
    PROVE  EndInv'
  BY <1>15 DEF RemoveClient, At, Return, RemoveFromMap
<1>16. ASSUME NEW a \in AppThreads, NEW c \in Clients, FindClient(a, c), UNCHANGED acceptorVars
    PROVE  EndInv'
  BY <1>16 DEF FindClient
<1>17. ASSUME NEW a \in AppThreads, PostSend(a), UNCHANGED acceptorVars
    PROVE  EndInv'
  BY <1>17 DEF PostSend, At, UseContext, FreeContexts
<1>18. ASSUME NEW a \in AppThreads, CloseSocket(a), UNCHANGED acceptorVars
    PROVE  EndInv'
  BY <1>18 DEF CloseSocket, At, PostSpecial, UseContext, FreeContexts
<1>19. ASSUME NEW a \in AppThreads, UnRef(a), UNCHANGED acceptorVars
    PROVE  EndInv'
  BY <1>19 DEF UnRef, At
<1>20. ASSUME NEW t \in Threads, Faults(t), UNCHANGED acceptorVars
    PROVE  EndInv'
  BY <1>20 DEF Faults
<1>21. ASSUME NEW c \in Clients, CheckStatus(c), UNCHANGED acceptorVars
    PROVE  EndInv'
  BY <1>21 DEF CheckStatus, PostSpecial, UseContext, FreeContexts, Unused
<1>22. ASSUME NEW c \in Clients, CheckStatusFails(c), UNCHANGED acceptorVars
    PROVE  EndInv'
  BY <1>22 DEF CheckStatusFails, PostSpecialFails
<1>23. ASSUME NEW w \in Workers, NEW c \in Clients, AcceptCompleted(w, c)
    PROVE  EndInv'
  BY <1>23 DEF AcceptCompleted
<1>24. ASSUME NEW w \in Workers,
           PostRecv(w, "acceptPostRecv", "acceptIssueRecv"), UNCHANGED acceptorVars
    PROVE  EndInv'
  BY <1>24 DEF PostRecv, At
<1>25. ASSUME NEW w \in Workers,
           IssueRecv(w, "acceptIssueRecv", "accepted", "acceptFailed"), UNCHANGED acceptorVars
    PROVE  EndInv'
  BY <1>25 DEF IssueRecv, At
<1>26. ASSUME NEW w \in Workers, ReportConnected(w)
    PROVE  EndInv'
  BY <1>26 DEF ReportConnected, At, Tell
<1>27. ASSUME NEW w \in Workers, DropClient(w)
    PROVE  EndInv'
  BY <1>27 DEF DropClient, At
<1>28. ASSUME NEW w \in Workers, RemoveDropped(w)
    PROVE  EndInv'
  BY <1>28 DEF RemoveDropped, RemoveFromMap
<1>29. ASSUME NEW w \in Workers, DecrementPending(w)
    PROVE  EndInv'
  BY <1>29 DEF DecrementPending
<1>30. ASSUME NEW t \in Workers \cup {Starter}, AllocTcpClient(t)
    PROVE  EndInv'
  BY <1>30 DEF AllocTcpClient
<1>31. ASSUME NEW t \in Workers \cup {Starter}, CannotPostAccept(t)
    PROVE  EndInv'
  BY <1>31 DEF CannotPostAccept, AfterAccept
<1>32. ASSUME NEW t \in Workers \cup {Starter}, IncrementPending(t)
    PROVE  EndInv'
  BY <1>32 DEF IncrementPending, At
<1>33. ASSUME NEW t \in Workers \cup {Starter}, AcceptExSucceeds(t)
    PROVE  EndInv'
  BY <1>33 DEF AcceptExSucceeds, At, AfterAccept
<1>34. ASSUME NEW t \in Workers \cup {Starter}, AcceptExFails(t)
    PROVE  EndInv'
  BY <1>34 DEF AcceptExFails, At, AfterAccept, RemoveFromMap
<1>35. ASSUME NEW t \in Workers \cup {Starter}, AcceptorFaults(t)
    PROVE  EndInv'
  BY <1>35 DEF AcceptorFaults
<1>36. ASSUME StartFails
    PROVE  EndInv'
  BY <1>36 DEF StartFails
<1>37. QED
    BY Next, <1>1, <1>2, <1>3, <1>4, <1>5, <1>6, <1>7, <1>8, <1>9, <1>10, <1>11, <1>12, <1>13,
       <1>14, <1>15, <1>16, <1>17, <1>18, <1>19, <1>20, <1>21, <1>22, <1>23, <1>24, <1>25, <1>26,
       <1>27, <1>28, <1>29, <1>30, <1>31, <1>32, <1>33, <1>34, <1>35, <1>36
       DEF Next, ClientNext, AcceptorNext, Kernel, TakeCompletion, CheckReleaseStep, ConnectionStep,
              AppStep, Assist, AcceptConnection, PostAccept

\* The half-received packet goes with the report.
LEMMA PacketStep ==
    ASSUME ~SpecialPostFails, ~CallbackThrows, RefIInv, IOCounted, LifeInv, Next
    PROVE  PacketInv'
<1> USE ThreadsDisjoint, CtxDisjoint, NoClientFresh
        DEF RefIInv, TypeOK, ClientTypeOK, ContextTypeOK, ThreadTypeOK, Goto, Threads, Ctx,
            poolVars, connVars, ctxVars, ConnInv, AllocInv, OnePump, PumpIO, PumpOp, WorkPCs,
            TouchingPCs, EarlyPCs, PumpPCs, LifeInv, FreshInv, ReceivingInv, Receiving, PacketInv,
            LostReport
<1>1. ASSUME NEW x \in Ctx, KernelCompletes(x), UNCHANGED acceptorVars
    PROVE  PacketInv'
  BY <1>1 DEF KernelCompletes
<1>2. ASSUME NEW x \in Ctx, KernelAborts(x), UNCHANGED acceptorVars
    PROVE  PacketInv'
  BY <1>2 DEF KernelAborts
<1>3. ASSUME NEW c \in Clients, GoesStale(c), UNCHANGED acceptorVars
    PROVE  PacketInv'
  BY <1>3 DEF GoesStale
<1>4. ASSUME NEW w \in Workers, NEW c \in Clients, RecvCompleted(w, c), UNCHANGED acceptorVars
    PROVE  PacketInv'
  BY <1>4 DEF RecvCompleted, Dequeue, ClientOf
<1>5. ASSUME NEW w \in Workers, NEW x \in IOContexts,
           SendCompleted(w, x), UNCHANGED acceptorVars
    PROVE  PacketInv'
  BY <1>5 DEF SendCompleted, Dequeue, ReleaseContext, ClientOf
<1>6. ASSUME NEW w \in Workers, NEW x \in IOContexts,
           SpecialCompleted(w, x), UNCHANGED acceptorVars
    PROVE  PacketInv'
  BY <1>6 DEF SpecialCompleted, Dequeue, ReleaseContext, ClientOf
<1>7. ASSUME NEW w \in Workers, NEW x \in Ctx, DequeueFaults(w, x), UNCHANGED acceptorVars
    PROVE  PacketInv'
  BY <1>7 DEF DequeueFaults, ClientOf
<1>8. ASSUME NEW w \in Workers, OnRecvCompletion(w), UNCHANGED acceptorVars
    PROVE  PacketInv'
  BY <1>8 DEF OnRecvCompletion, At, Tell
<1>9. ASSUME NEW w \in Workers, PostRecv(w, "postRecv", "issueRecv"), UNCHANGED acceptorVars
    PROVE  PacketInv'
  BY <1>9 DEF PostRecv, At
<1>10. ASSUME NEW w \in Workers,
           IssueRecv(w, "issueRecv", "release", "disconnect"), UNCHANGED acceptorVars
    PROVE  PacketInv'
  BY <1>10 DEF IssueRecv, At
<1>11. ASSUME NEW w \in Workers, SetDisconnect(w), UNCHANGED acceptorVars
    PROVE  PacketInv'
  BY <1>11 DEF SetDisconnect, At
<1>12. ASSUME NEW t \in Workers \cup AppThreads, DecreaseIOCount(t), UNCHANGED acceptorVars
    PROVE  PacketInv'
  BY <1>12, SMTT(30) DEF DecreaseIOCount, At, Return
<1>13. ASSUME NEW t \in Workers \cup AppThreads, MarkClosed(t), UNCHANGED acceptorVars
    PROVE  PacketInv'
  BY <1>13 DEF MarkClosed, At
<1>14. ASSUME NEW t \in Workers \cup AppThreads, ReportClosed(t), UNCHANGED acceptorVars
    PROVE  PacketInv'
  BY <1>14 DEF ReportClosed, At, Return, Tell
<1>15. ASSUME NEW t \in Workers \cup AppThreads, RemoveClient(t), UNCHANGED acceptorVars
    PROVE  PacketInv'
  BY <1>15 DEF RemoveClient, At, Return, RemoveFromMap
<1>16. ASSUME NEW a \in AppThreads, NEW c \in Clients, FindClient(a, c), UNCHANGED acceptorVars
    PROVE  PacketInv'
  BY <1>16 DEF FindClient
<1>17. ASSUME NEW a \in AppThreads, PostSend(a), UNCHANGED acceptorVars
    PROVE  PacketInv'
  BY <1>17 DEF PostSend, At, UseContext, FreeContexts
<1>18. ASSUME NEW a \in AppThreads, CloseSocket(a), UNCHANGED acceptorVars
    PROVE  PacketInv'
  BY <1>18 DEF CloseSocket, At, PostSpecial, UseContext, FreeContexts
<1>19. ASSUME NEW a \in AppThreads, UnRef(a), UNCHANGED acceptorVars
    PROVE  PacketInv'
  BY <1>19 DEF UnRef, At
<1>20. ASSUME NEW t \in Threads, Faults(t), UNCHANGED acceptorVars
    PROVE  PacketInv'
  BY <1>20 DEF Faults
<1>21. ASSUME NEW c \in Clients, CheckStatus(c), UNCHANGED acceptorVars
    PROVE  PacketInv'
  BY <1>21 DEF CheckStatus, PostSpecial, UseContext, FreeContexts, Unused
<1>22. ASSUME NEW c \in Clients, CheckStatusFails(c), UNCHANGED acceptorVars
    PROVE  PacketInv'
  BY <1>22 DEF CheckStatusFails, PostSpecialFails
<1>23. ASSUME NEW w \in Workers, NEW c \in Clients, AcceptCompleted(w, c)
    PROVE  PacketInv'
  BY <1>23, SMTT(30) DEF AcceptCompleted
<1>24. ASSUME NEW w \in Workers,
           PostRecv(w, "acceptPostRecv", "acceptIssueRecv"), UNCHANGED acceptorVars
    PROVE  PacketInv'
  BY <1>24 DEF PostRecv, At
<1>25. ASSUME NEW w \in Workers,
           IssueRecv(w, "acceptIssueRecv", "accepted", "acceptFailed"), UNCHANGED acceptorVars
    PROVE  PacketInv'
  BY <1>25 DEF IssueRecv, At
<1>26. ASSUME NEW w \in Workers, ReportConnected(w)
    PROVE  PacketInv'
  BY <1>26 DEF ReportConnected, At, Tell
<1>27. ASSUME NEW w \in Workers, DropClient(w)
    PROVE  PacketInv'
  BY <1>27 DEF DropClient, At
<1>28. ASSUME NEW w \in Workers, RemoveDropped(w)
    PROVE  PacketInv'
  BY <1>28 DEF RemoveDropped, RemoveFromMap
<1>29. ASSUME NEW w \in Workers, DecrementPending(w)
    PROVE  PacketInv'
  BY <1>29 DEF DecrementPending
<1>30. ASSUME NEW t \in Workers \cup {Starter}, AllocTcpClient(t)
    PROVE  PacketInv'
  BY <1>30 DEF AllocTcpClient
<1>31. ASSUME NEW t \in Workers \cup {Starter}, CannotPostAccept(t)
    PROVE  PacketInv'
  BY <1>31 DEF CannotPostAccept, AfterAccept
<1>32. ASSUME NEW t \in Workers \cup {Starter}, IncrementPending(t)
    PROVE  PacketInv'
  BY <1>32 DEF IncrementPending, At
<1>33. ASSUME NEW t \in Workers \cup {Starter}, AcceptExSucceeds(t)
    PROVE  PacketInv'
  BY <1>33 DEF AcceptExSucceeds, At, AfterAccept
<1>34. ASSUME NEW t \in Workers \cup {Starter}, AcceptExFails(t)
    PROVE  PacketInv'
  BY <1>34 DEF AcceptExFails, At, AfterAccept, RemoveFromMap
<1>35. ASSUME NEW t \in Workers \cup {Starter}, AcceptorFaults(t)
    PROVE  PacketInv'
  BY <1>35 DEF AcceptorFaults
<1>36. ASSUME StartFails
    PROVE  PacketInv'
  BY <1>36 DEF StartFails
<1>37. QED
    BY Next, <1>1, <1>2, <1>3, <1>4, <1>5, <1>6, <1>7, <1>8, <1>9, <1>10, <1>11, <1>12, <1>13,
       <1>14, <1>15, <1>16, <1>17, <1>18, <1>19, <1>20, <1>21, <1>22, <1>23, <1>24, <1>25, <1>26,
       <1>27, <1>28, <1>29, <1>30, <1>31, <1>32, <1>33, <1>34, <1>35, <1>36
       DEF Next, ClientNext, AcceptorNext, Kernel, TakeCompletion, CheckReleaseStep, ConnectionStep,
              AppStep, Assist, AcceptConnection, PostAccept

\* Whoever takes the last count of a connection leaves it quiet.
LEMMA LastCount ==
    ASSUME RefIInv, IOCounted, LifeInv,
           NEW t \in Workers \cup AppThreads, pc[t] = "release", mem[cur[t]] = "live",
           pendingIO[cur[t]] = 1
    PROVE  Quiet(cur[t])
<1> USE DEF RefIInv, TypeOK, ClientTypeOK, ContextTypeOK, ThreadTypeOK, Threads, Ctx, ConnInv, AllocInv,
            WorkPCs, TouchingPCs
<1>1. PICK c \in Clients : c = cur[t]
  OBVIOUS
<1>2. Opened(c) /\ \A u \in Threads : pc[u] \in {"acceptEx", "acceptPostRecv"} => cur[u] # c
  BY <1>1 DEF LifeInv, OpenedInv, Opened, PastPCs, PumpOp
<1>3. ~Dropped(c)
  BY <1>1 DEF LifeInv, DroppedDrained
<1>4. t \in Holders(c) /\ Cardinality(Holders(c)) = 1
  BY <1>1, <1>3 DEF IOCounted, Counts, Holders, ThreadHolds, HoldingPCs
<1>5. \E h : Holders(c) = {h}
  <2> HIDE DEF Holders
  <2>1. QED BY <1>4, HoldersFinite, FS_Singleton
<1>6. \A h \in Holders(c) : h = t
  BY <1>4, <1>5
<1>7. io[c] = "none" /\ ~SendOn(c)
  <2>1. \A x \in Ctx : io[x] # "none" /\ ClientOf(x) = c => TypeOf(x) = "accept"
    BY <1>6, CtxDisjoint DEF Holders, OpHolds
  <2>2. io[c] = "none"
    BY <1>2, <2>1 DEF ClientOf, TypeOf, Opened
  <2>3. QED BY <2>1, <2>2, CtxDisjoint DEF SendOn, ClientOf, TypeOf
<1>8. \A u \in Threads : u # t /\ pc[u] \in HoldingPCs => cur[u] # c
  BY <1>6 DEF Holders, ThreadHolds
<1>9. \A u \in Threads : pc[u] \in BusyPCs => cur[u] # c
  <2>1. \A u \in Threads : pc[u] = "acceptIssueRecv" => cur[u] # c
    BY <1>7 DEF PumpIO, PumpPCs, EarlyPCs
  <2>2. QED BY <1>1, <1>2, <1>8, <2>1 DEF BusyPCs, HoldingPCs, Opened
<1>10. connState[c] # "CONNECTED"
  <2>1. ASSUME connState[c] = "CONNECTED"
        PROVE  \E u \in Threads : pc[u] = "acceptFailed" /\ cur[u] = c
    <3>1. Kept(c)
      BY <1>1, <2>1 DEF LifeInv, KeptInv
    <3>2. PICK u \in Threads : pc[u] \in KeeperPCs /\ cur[u] = c
      BY <1>7, <3>1 DEF Kept
    <3>3. u # t
      BY <3>2 DEF KeeperPCs
    <3>4. QED BY <1>8, <1>9, <3>2, <3>3 DEF KeeperPCs, BusyPCs, HoldingPCs
  <2>2. QED BY <1>1, <2>1 DEF LifeInv, EarlyRelease
<1>11. QED BY <1>1, <1>7, <1>9, <1>10 DEF Quiet

\* Once over, over for good: the socket is closed, and what checkStatus or
\* CloseSocket may still post only runs CheckRelease again.
LEMMA QuietStep ==
    ASSUME ~SpecialPostFails, ~CallbackThrows, RefIInv, IOCounted, LifeInv, Next
    PROVE  QuietInv'
<1> USE ThreadsDisjoint, CtxDisjoint, NoClientFresh
        DEF RefIInv, TypeOK, ClientTypeOK, ContextTypeOK, ThreadTypeOK, Goto, Threads, Ctx,
            poolVars, connVars, ctxVars, ConnInv, AllocInv, OnePump, PumpIO, PumpOp, WorkPCs,
            TouchingPCs, EarlyPCs, PumpPCs, LifeInv, QuietInv, Quiet, Over, EndPCs, BusyPCs,
            SendOn, OpenedInv, Opened, PastPCs, FreshInv, SocketInv, NamedInv, RefInv, RefNamed,
            RefPCs, SendNamed
<1>1. ASSUME NEW x \in Ctx, KernelCompletes(x), UNCHANGED acceptorVars
    PROVE  QuietInv'
  BY <1>1 DEF KernelCompletes
<1>2. ASSUME NEW x \in Ctx, KernelAborts(x), UNCHANGED acceptorVars
    PROVE  QuietInv'
  BY <1>2 DEF KernelAborts
<1>3. ASSUME NEW c \in Clients, GoesStale(c), UNCHANGED acceptorVars
    PROVE  QuietInv'
  BY <1>3 DEF GoesStale
<1>4. ASSUME NEW w \in Workers, NEW c \in Clients, RecvCompleted(w, c), UNCHANGED acceptorVars
    PROVE  QuietInv'
  BY <1>4 DEF RecvCompleted, Dequeue, ClientOf
<1>5. ASSUME NEW w \in Workers, NEW x \in IOContexts,
           SendCompleted(w, x), UNCHANGED acceptorVars
    PROVE  QuietInv'
  BY <1>5 DEF SendCompleted, Dequeue, ReleaseContext, ClientOf
<1>6. ASSUME NEW w \in Workers, NEW x \in IOContexts,
           SpecialCompleted(w, x), UNCHANGED acceptorVars
    PROVE  QuietInv'
  BY <1>6 DEF SpecialCompleted, Dequeue, ReleaseContext, ClientOf
<1>7. ASSUME NEW w \in Workers, NEW x \in Ctx, DequeueFaults(w, x), UNCHANGED acceptorVars
    PROVE  QuietInv'
  BY <1>7 DEF DequeueFaults, ClientOf
<1>8. ASSUME NEW w \in Workers, OnRecvCompletion(w), UNCHANGED acceptorVars
    PROVE  QuietInv'
  BY <1>8 DEF OnRecvCompletion, At, Tell
<1>9. ASSUME NEW w \in Workers, PostRecv(w, "postRecv", "issueRecv"), UNCHANGED acceptorVars
    PROVE  QuietInv'
  BY <1>9 DEF PostRecv, At
<1>10. ASSUME NEW w \in Workers,
           IssueRecv(w, "issueRecv", "release", "disconnect"), UNCHANGED acceptorVars
    PROVE  QuietInv'
  BY <1>10 DEF IssueRecv, At
<1>11. ASSUME NEW w \in Workers, SetDisconnect(w), UNCHANGED acceptorVars
    PROVE  QuietInv'
  BY <1>11 DEF SetDisconnect, At
<1>12. ASSUME NEW t \in Workers \cup AppThreads, DecreaseIOCount(t), UNCHANGED acceptorVars
    PROVE  QuietInv'
  <2>1. pendingIO[cur[t]] = 1 => Quiet(cur[t])
    BY <1>12, LastCount DEF DecreaseIOCount, At
  <2>2. QED BY <1>12, <2>1 DEF DecreaseIOCount, At, Return
<1>13. ASSUME NEW t \in Workers \cup AppThreads, MarkClosed(t), UNCHANGED acceptorVars
    PROVE  QuietInv'
  BY <1>13 DEF MarkClosed, At
<1>14. ASSUME NEW t \in Workers \cup AppThreads, ReportClosed(t), UNCHANGED acceptorVars
    PROVE  QuietInv'
  BY <1>14 DEF ReportClosed, At, Return, Tell
<1>15. ASSUME NEW t \in Workers \cup AppThreads, RemoveClient(t), UNCHANGED acceptorVars
    PROVE  QuietInv'
  BY <1>15 DEF RemoveClient, At, Return, RemoveFromMap
<1>16. ASSUME NEW a \in AppThreads, NEW c \in Clients, FindClient(a, c), UNCHANGED acceptorVars
    PROVE  QuietInv'
  BY <1>16 DEF FindClient
<1>17. ASSUME NEW a \in AppThreads, PostSend(a), UNCHANGED acceptorVars
    PROVE  QuietInv'
  BY <1>17, SMTT(30) DEF PostSend, At, UseContext, FreeContexts
<1>18. ASSUME NEW a \in AppThreads, CloseSocket(a), UNCHANGED acceptorVars
    PROVE  QuietInv'
  BY <1>18, SMTT(30) DEF CloseSocket, At, PostSpecial, UseContext, FreeContexts
<1>19. ASSUME NEW a \in AppThreads, UnRef(a), UNCHANGED acceptorVars
    PROVE  QuietInv'
  BY <1>19 DEF UnRef, At
<1>20. ASSUME NEW t \in Threads, Faults(t), UNCHANGED acceptorVars
    PROVE  QuietInv'
  BY <1>20 DEF Faults
<1>21. ASSUME NEW c \in Clients, CheckStatus(c), UNCHANGED acceptorVars
    PROVE  QuietInv'
  BY <1>21 DEF CheckStatus, PostSpecial, UseContext, FreeContexts, Unused
<1>22. ASSUME NEW c \in Clients, CheckStatusFails(c), UNCHANGED acceptorVars
    PROVE  QuietInv'
  BY <1>22 DEF CheckStatusFails, PostSpecialFails
<1>23. ASSUME NEW w \in Workers, NEW c \in Clients, AcceptCompleted(w, c)
    PROVE  QuietInv'
  BY <1>23 DEF AcceptCompleted
<1>24. ASSUME NEW w \in Workers,
           PostRecv(w, "acceptPostRecv", "acceptIssueRecv"), UNCHANGED acceptorVars
    PROVE  QuietInv'
  BY <1>24 DEF PostRecv, At
<1>25. ASSUME NEW w \in Workers,
           IssueRecv(w, "acceptIssueRecv", "accepted", "acceptFailed"), UNCHANGED acceptorVars
    PROVE  QuietInv'
  BY <1>25 DEF IssueRecv, At
<1>26. ASSUME NEW w \in Workers, ReportConnected(w)
    PROVE  QuietInv'
  BY <1>26 DEF ReportConnected, At, Tell
<1>27. ASSUME NEW w \in Workers, DropClient(w)
    PROVE  QuietInv'
  BY <1>27 DEF DropClient, At
<1>28. ASSUME NEW w \in Workers, RemoveDropped(w)
    PROVE  QuietInv'
  BY <1>28 DEF RemoveDropped, RemoveFromMap
<1>29. ASSUME NEW w \in Workers, DecrementPending(w)
    PROVE  QuietInv'
  BY <1>29 DEF DecrementPending
<1>30. ASSUME NEW t \in Workers \cup {Starter}, AllocTcpClient(t)
    PROVE  QuietInv'
  BY <1>30 DEF AllocTcpClient
<1>31. ASSUME NEW t \in Workers \cup {Starter}, CannotPostAccept(t)
    PROVE  QuietInv'
  BY <1>31 DEF CannotPostAccept, AfterAccept
<1>32. ASSUME NEW t \in Workers \cup {Starter}, IncrementPending(t)
    PROVE  QuietInv'
  BY <1>32 DEF IncrementPending, At
<1>33. ASSUME NEW t \in Workers \cup {Starter}, AcceptExSucceeds(t)
    PROVE  QuietInv'
  BY <1>33 DEF AcceptExSucceeds, At, AfterAccept
<1>34. ASSUME NEW t \in Workers \cup {Starter}, AcceptExFails(t)
    PROVE  QuietInv'
  BY <1>34 DEF AcceptExFails, At, AfterAccept, RemoveFromMap
<1>35. ASSUME NEW t \in Workers \cup {Starter}, AcceptorFaults(t)
    PROVE  QuietInv'
  BY <1>35 DEF AcceptorFaults
<1>36. ASSUME StartFails
    PROVE  QuietInv'
  BY <1>36 DEF StartFails
<1>37. QED
    BY ZenonT(60), Next, <1>1, <1>2, <1>3, <1>4, <1>5, <1>6, <1>7, <1>8, <1>9, <1>10, <1>11, <1>12, <1>13,
       <1>14, <1>15, <1>16, <1>17, <1>18, <1>19, <1>20, <1>21, <1>22, <1>23, <1>24, <1>25, <1>26,
       <1>27, <1>28, <1>29, <1>30, <1>31, <1>32, <1>33, <1>34, <1>35, <1>36
       DEF Next, ClientNext, AcceptorNext, Kernel, TakeCompletion, CheckReleaseStep, ConnectionStep,
              AppStep, Assist, AcceptConnection, PostAccept

\* The whole of it.
LifeIInv == CountIInv /\ LifeInv

\* Every step keeps all the parts together.
LEMMA LifeIInvStep ==
    ASSUME ~SpecialPostFails, ~CallbackThrows, LifeIInv, [Next]_vars
    PROVE  LifeIInv'
<1>1. CountIInv'
  BY CountIInvStep DEF LifeIInv
<1>2. CASE Next
  BY <1>1, <1>2, OpenedStep, FreshStep, SendNamedStep, DroppedDrainedStep, SocketStep,
     EarlyReleaseStep, KeptStep, ReceivingStep, QuietStep, ClosingStep, EndStep, PacketStep
     DEF LifeIInv, CountIInv, LifeInv
<1>3. CASE UNCHANGED vars
  <2> USE <1>3 DEF vars, poolVars, connVars, ctxVars, LifeIInv, LifeInv
  <2>1. OpenedInv' /\ FreshInv'
    BY DEF OpenedInv, Opened, FreshInv
  <2>2. SendNamed' /\ DroppedDrained'
    BY DEF SendNamed, SendOn, Named, DroppedDrained, Dropped
  <2>3. SocketInv' /\ EarlyRelease'
    BY DEF SocketInv, EarlyRelease
  <2>4. KeptInv' /\ ReceivingInv'
    BY DEF KeptInv, Kept, ReceivingInv, Receiving
  <2>5. QuietInv'
    BY DEF QuietInv, Quiet, Over, SendOn
  <2>6. ClosingInv' /\ EndInv' /\ PacketInv'
    BY DEF ClosingInv, EndInv, PacketInv, LostReport
  <2>7. QED BY <1>1, <2>1, <2>2, <2>3, <2>4, <2>5, <2>6
<1>4. QED BY <1>2, <1>3

\* A server that has accepted nothing satisfies them trivially.
LEMMA LifeIInvInit == Init => LifeIInv
<1> SUFFICES ASSUME Init PROVE LifeIInv
  OBVIOUS
<1> USE ThreadsDisjoint DEF Init, Threads, Ctx
<1>1. OpenedInv /\ FreshInv
  BY DEF OpenedInv, Opened, FreshInv, PastPCs
<1>2. SendNamed /\ DroppedDrained
  BY DEF SendNamed, SendOn, DroppedDrained, Dropped
<1>3. SocketInv /\ EarlyRelease /\ KeptInv /\ ReceivingInv
  BY DEF SocketInv, EarlyRelease, KeptInv, ReceivingInv, Receiving
<1>4. QuietInv
  BY DEF QuietInv, Over, EndPCs
<1>5. ClosingInv /\ EndInv /\ PacketInv
  BY DEF ClosingInv, EndInv, PacketInv
<1>6. QED BY <1>1, <1>2, <1>3, <1>4, <1>5, CountIInvInit DEF LifeIInv, LifeInv

\* The invariant of this module: who may be at work on a connection, what its state
\* and socket say, and that nothing is left once a thread found mPendingIO drained.
THEOREM LifeIInvCorrect ==
    ASSUME ~SpecialPostFails, ~CallbackThrows
    PROVE  Spec => []LifeIInv
<1>1. LifeIInv /\ [Next]_vars => LifeIInv'
  BY LifeIInvStep
<1>2. QED BY <1>1, LifeIInvInit, PTL DEF Spec

-----------------------------------------------------------------------------
(* What it shows of the end of a connection. *)

\* The kernel never has a buffer of a client that was freed: while an accept, a
\* receive or a send is outstanding or queued its client is in the table.
THEOREM KernelBuffersStayLive ==
    ASSUME ~SpecialPostFails, ~CallbackThrows
    PROVE  Spec => []KernelBuffersLive
<1>1. LifeIInv => KernelBuffersLive
  <2> SUFFICES ASSUME LifeIInv,
                      NEW x \in Ctx, io[x] # "none", TypeOf(x) \in {"accept", "recv", "send"}
               PROVE  mem[ClientOf(x)] = "live"
    BY DEF KernelBuffersLive
  <2> USE CtxDisjoint DEF LifeIInv, CountIInv, RefIInv, TypeOK, ClientTypeOK, ContextTypeOK, Ctx, ConnInv,
                          AllocInv, LifeInv, QuietInv, Quiet, Over, SendOn, ClientOf, TypeOf
  <2>1. CASE x \in Clients
    BY <2>1
  <2>2. CASE x \in IOContexts
    BY <2>2
  <2>3. QED BY <2>1, <2>2
<1>2. QED BY <1>1, LifeIInvCorrect, PTL

\* OnClosed is called by one thread, once, and no OnReceived can come after it.
THEOREM ClosedIsLast ==
    ASSUME ~SpecialPostFails, ~CallbackThrows
    PROVE  Spec => []ClosedLast
<1>1. LifeIInv => ClosedLast
  BY DEF LifeIInv, CountIInv, RefIInv, ConnInv, AllocInv, WorkPCs, TouchingPCs, LifeInv, QuietInv, Quiet,
         Over, EndPCs, BusyPCs, ClosingInv, ClosedLast
<1>2. QED BY <1>1, LifeIInvCorrect, PTL

\* When the memory of a connection goes, its half-received packet is back in the
\* pool, unless the thread that reports OnClosed lost the client under its feet.
THEOREM PacketsComeBack ==
    ASSUME ~SpecialPostFails, ~CallbackThrows
    PROVE  Spec => []PacketReturned
<1>1. LifeIInv => PacketReturned
  BY DEF LifeIInv, CountIInv, RefIInv, TypeOK, ClientTypeOK, LifeInv, EndInv, PacketInv, PacketReturned
<1>2. QED BY <1>1, LifeIInvCorrect, PTL

-----------------------------------------------------------------------------
(* The connections of the server live the life ConnectionLife promises. *)

\* What a step may do to the life of a connection.
SamePhases(S) == \A d \in S : Phase(d)' = Phase(d)
SameNames(S) == \A d \in S : Named(d)' <=> Named(d)
Stays == SamePhases(Clients) /\ SameNames(Clients)
Moves(c, from, to) ==
    Phase(c) = from /\ Phase(c)' = to /\ SamePhases(Clients \ {c}) /\ SameNames(Clients)
Reports(c) ==
    /\ Phase(c) \in {"open", "closing", "closed"} /\ SamePhases(Clients)
    /\ Named(c)' /\ SameNames(Clients \ {c})
Leaves(c) ==
    /\ ~Named(c) /\ Phase(c) \notin {"unused", "released"} /\ Phase(c)' = "released"
    /\ SamePhases(Clients \ {c}) /\ SameNames(Clients)

LifeVars == <<[c \in Clients |-> Phase(c)],
              {c \in Clients : told[c] \cap {"connected", "received"} # {}}>>

\* The application never forgets an id.
LEMMA NamesGrow ==
    ASSUME ClientTypeOK, NEW c \in Clients, NEW callback \in {"connected", "received"},
           told' = [told EXCEPT ![c] = @ \cup {callback}]
    PROVE  Named(c)' /\ SameNames(Clients \ {c})
<1>1. callback \in told'[c] \cap {"connected", "received"}
  BY DEF ClientTypeOK
<1>2. Named(c)'
  BY <1>1 DEF Named
<1>3. \A d \in Clients \ {c} : told'[d] = told[d]
  BY DEF ClientTypeOK
<1>4. QED BY <1>2, <1>3 DEF SameNames, Named

\* Steps that ConnectionLife does not see.
LEMMA StaysMaps == Stays => UNCHANGED LifeVars
BY DEF Stays, SamePhases, SameNames, Named, LifeVars

\* OnConnected, OnReceived and OnClosed are the reports of ConnectionLife.
LEMMA ReportMaps == ASSUME NEW c \in Clients, Reports(c) PROVE Life!Next
<1> DEFINE names == {d \in Clients : told[d] \cap {"connected", "received"} # {}}
<1>1. names' = names \cup {c}
  BY DEF Reports, SameNames, Named
<1>2. [d \in Clients |-> Phase(d)]' = [d \in Clients |-> Phase(d)]
  BY DEF Reports, SamePhases
<1>3. [d \in Clients |-> Phase(d)][c] \in {"open", "closing", "closed"}
  BY DEF Reports
<1>4. Life!Report(c)
  BY <1>1, <1>2, <1>3 DEF Life!Report
<1>5. QED BY <1>4 DEF Life!Next

\* One connection moves on, ...
LEMMA MoveMaps ==
    ASSUME NEW c \in Clients, NEW from, NEW to, Moves(c, from, to)
    PROVE  Life!Move(c, from, to)
<1>1. [d \in Clients |-> Phase(d)]' = [[d \in Clients |-> Phase(d)] EXCEPT ![c] = to]
  BY DEF Moves, SamePhases
<1>2. [d \in Clients |-> Phase(d)][c] = from
  BY DEF Moves
<1>3. UNCHANGED {d \in Clients : told[d] \cap {"connected", "received"} # {}}
  BY DEF Moves, SameNames, Named
<1>4. QED BY <1>1, <1>2, <1>3 DEF Life!Move

\* ... any one of them, ...
LEMMA MovesMap ==
    ASSUME NEW c \in Clients,
           \/ Moves(c, "unused", "opening") \/ Moves(c, "opening", "open") \/ Moves(c, "open", "closing")
           \/ Moves(c, "closing", "closed") \/ Moves(c, "closed", "released")
    PROVE  Life!Next
BY MoveMaps DEF Life!Next, Life!Allocate, Life!Establish, Life!Disconnect, Life!Close, Life!Release

\* ... or leaves the table for good.
LEMMA LeaveMaps == ASSUME NEW c \in Clients, Leaves(c) PROVE Life!Next
<1>1. [d \in Clients |-> Phase(d)]' = [[d \in Clients |-> Phase(d)] EXCEPT ![c] = "released"]
  BY DEF Leaves, SamePhases
<1>2. [d \in Clients |-> Phase(d)][c] \notin {"unused", "released"}
  BY DEF Leaves
<1>3. UNCHANGED {d \in Clients : told[d] \cap {"connected", "received"} # {}}
  BY DEF Leaves, SameNames, Named
<1>4. c \notin {d \in Clients : told[d] \cap {"connected", "received"} # {}}
  BY DEF Leaves, Named
<1>5. Life!Abandon(c)
  BY <1>1, <1>2, <1>3, <1>4 DEF Life!Abandon
<1>6. QED BY <1>5 DEF Life!Next

\* Every step of the server is a step of ConnectionLife or changes nothing it sees.
LEMMA LifeStep ==
    ASSUME ~SpecialPostFails, ~CallbackThrows, RefIInv, IOCounted, LifeInv, Next
    PROVE  Life!Next \/ UNCHANGED LifeVars
<1> USE ThreadsDisjoint, CtxDisjoint, NoClientFresh
        DEF RefIInv, TypeOK, ClientTypeOK, ContextTypeOK, ThreadTypeOK, Goto, Threads, Ctx,
            poolVars, connVars, ctxVars, ConnInv, AllocInv, OnePump, PumpIO, PumpOp, WorkPCs,
            TouchingPCs, EarlyPCs, PumpPCs, OpenerPCs, NamedInv, RefInv, RefNamed, RefPCs, Named,
            LifeInv, FreshInv, OpenedInv, Opened, PastPCs, SocketInv, ReceivingInv, Receiving,
            QuietInv, Quiet, Over, EndPCs, BusyPCs, EndInv, Stays, Moves, Reports, Leaves,
            SamePhases, SameNames, Phase, Dropped
<1>1. ASSUME NEW x \in Ctx, KernelCompletes(x), UNCHANGED acceptorVars
    PROVE  Stays
  BY <1>1 DEF KernelCompletes
<1>2. ASSUME NEW x \in Ctx, KernelAborts(x), UNCHANGED acceptorVars
    PROVE  Stays
  BY <1>2 DEF KernelAborts
<1>3. ASSUME NEW c \in Clients, GoesStale(c), UNCHANGED acceptorVars
    PROVE  Stays
  BY <1>3 DEF GoesStale
<1>4. ASSUME NEW w \in Workers, NEW c \in Clients, RecvCompleted(w, c), UNCHANGED acceptorVars
    PROVE  Stays
  BY <1>4 DEF RecvCompleted, Dequeue, ClientOf
<1>5. ASSUME NEW w \in Workers, NEW x \in IOContexts,
           SendCompleted(w, x), UNCHANGED acceptorVars
    PROVE  Stays
  BY <1>5 DEF SendCompleted, Dequeue, ReleaseContext, ClientOf
<1>6. ASSUME NEW w \in Workers, NEW x \in IOContexts,
           SpecialCompleted(w, x), UNCHANGED acceptorVars
    PROVE  Stays
  BY <1>6 DEF SpecialCompleted, Dequeue, ReleaseContext, ClientOf
<1>7. ASSUME NEW w \in Workers, NEW x \in Ctx, DequeueFaults(w, x), UNCHANGED acceptorVars
    PROVE  Stays
  BY <1>7 DEF DequeueFaults, ClientOf
<1>8. ASSUME NEW w \in Workers, OnRecvCompletion(w), UNCHANGED acceptorVars
    PROVE  Stays \/ \E c \in Clients : Reports(c)
  <2>1. PICK c \in Clients : c = cur[w] /\ mem[c] = "live"
    BY <1>8 DEF OnRecvCompletion, At
  <2>2. Phase(c) \in {"open", "closing", "closed"}
    BY <1>8, <2>1 DEF OnRecvCompletion, At
  <2>3. SamePhases(Clients)
    BY <1>8 DEF OnRecvCompletion, At
  <2>4. UNCHANGED told \/ told' = [told EXCEPT ![c] = @ \cup {"received"}]
    BY <1>8, <2>1 DEF OnRecvCompletion, Tell
  <2>5. CASE UNCHANGED told
    BY <2>3, <2>5
  <2>6. CASE told' = [told EXCEPT ![c] = @ \cup {"received"}]
    <3>1. Named(c)' /\ SameNames(Clients \ {c})
      BY <2>6, NamesGrow
    <3>2. QED BY <2>2, <2>3, <3>1
  <2>7. QED BY <2>4, <2>5, <2>6
<1>9. ASSUME NEW w \in Workers, PostRecv(w, "postRecv", "issueRecv"), UNCHANGED acceptorVars
    PROVE  Stays
  BY <1>9 DEF PostRecv, At
<1>10. ASSUME NEW w \in Workers,
           IssueRecv(w, "issueRecv", "release", "disconnect"), UNCHANGED acceptorVars
    PROVE  Stays
  BY <1>10 DEF IssueRecv, At
<1>11. ASSUME NEW w \in Workers, SetDisconnect(w), UNCHANGED acceptorVars
    PROVE  Stays \/ \E c \in Clients : Moves(c, "open", "closing")
  BY <1>11 DEF SetDisconnect, At
<1>12. ASSUME NEW t \in Workers \cup AppThreads, DecreaseIOCount(t), UNCHANGED acceptorVars
    PROVE  Stays
  BY <1>12 DEF DecreaseIOCount, At, Return
<1>13. ASSUME NEW t \in Workers \cup AppThreads, MarkClosed(t), UNCHANGED acceptorVars
    PROVE  Stays \/ \E c \in Clients : Moves(c, "closing", "closed")
  BY <1>13 DEF MarkClosed, At
<1>14. ASSUME NEW t \in Workers \cup AppThreads, ReportClosed(t), UNCHANGED acceptorVars
    PROVE  Stays
  BY <1>14 DEF ReportClosed, At, Return, Tell
<1>15. ASSUME NEW t \in Workers \cup AppThreads, RemoveClient(t), UNCHANGED acceptorVars
    PROVE  Stays \/ \E c \in Clients : Moves(c, "closed", "released")
  <2>1. PICK c \in Clients : c = cur[t] /\ mem[c] = "live"
    BY <1>15 DEF RemoveClient, At
  <2>2. connState[c] = "CLOSED" /\ recvOp[c] # "accept"
    BY <1>15, <2>1 DEF RemoveClient, At
  <2>3. SameNames(Clients) /\ SamePhases(Clients \ {c})
    BY <1>15, <2>1 DEF RemoveClient, At, Return, RemoveFromMap
  <2>4. CASE UNCHANGED mem
    BY <1>15, <2>3, <2>4, SMTT(30) DEF RemoveClient, At, Return
  <2>5. CASE mem' # mem
    <3>1. recvOp[c] = "recv" /\ mem'[c] = "freed"
      BY <1>15, <2>1, <2>2, <2>5 DEF RemoveClient, At, RemoveFromMap, HasID
    <3>2. Phase(c) = "closed" /\ Phase(c)' = "released"
      BY <2>1, <2>2, <3>1
    <3>3. QED BY <2>3, <3>2, SMTT(30)
  <2>6. QED BY <2>4, <2>5
<1>16. ASSUME NEW a \in AppThreads, NEW c \in Clients, FindClient(a, c), UNCHANGED acceptorVars
    PROVE  Stays
  BY <1>16 DEF FindClient
<1>17. ASSUME NEW a \in AppThreads, PostSend(a), UNCHANGED acceptorVars
    PROVE  Stays
  BY <1>17 DEF PostSend, At, UseContext, FreeContexts
<1>18. ASSUME NEW a \in AppThreads, CloseSocket(a), UNCHANGED acceptorVars
    PROVE  Stays
  BY <1>18 DEF CloseSocket, At, PostSpecial, UseContext, FreeContexts
<1>19. ASSUME NEW a \in AppThreads, UnRef(a), UNCHANGED acceptorVars
    PROVE  Stays
  BY <1>19 DEF UnRef, At
<1>20. ASSUME NEW t \in Threads, Faults(t), UNCHANGED acceptorVars
    PROVE  Stays
  BY <1>20 DEF Faults
<1>21. ASSUME NEW c \in Clients, CheckStatus(c), UNCHANGED acceptorVars
    PROVE  Stays \/ \E d \in Clients : Moves(d, "closed", "released")
  BY <1>21 DEF CheckStatus, PostSpecial, UseContext, FreeContexts, Unused
<1>22. ASSUME NEW c \in Clients, CheckStatusFails(c), UNCHANGED acceptorVars
    PROVE  Stays
  BY <1>22 DEF CheckStatusFails, PostSpecialFails
<1>23. ASSUME NEW w \in Workers, NEW c \in Clients, AcceptCompleted(w, c)
    PROVE  Stays \/ \E d \in Clients : Moves(d, "opening", "open")
  BY <1>23, SMTT(30) DEF AcceptCompleted
<1>24. ASSUME NEW w \in Workers,
           PostRecv(w, "acceptPostRecv", "acceptIssueRecv"), UNCHANGED acceptorVars
    PROVE  Stays
  BY <1>24 DEF PostRecv, At
<1>25. ASSUME NEW w \in Workers,
           IssueRecv(w, "acceptIssueRecv", "accepted", "acceptFailed"), UNCHANGED acceptorVars
    PROVE  Stays
  BY <1>25 DEF IssueRecv, At
<1>26. ASSUME NEW w \in Workers, ReportConnected(w)
    PROVE  \E c \in Clients : Reports(c)
  <2>1. PICK c \in Clients : c = cur[w] /\ mem[c] = "live"
    BY <1>26 DEF ReportConnected, At
  <2>2. Phase(c) \in {"open", "closing", "closed"}
    BY <1>26, <2>1 DEF ReportConnected, At
  <2>3. SamePhases(Clients)
    BY <1>26 DEF ReportConnected, At
  <2>4. Named(c)' /\ SameNames(Clients \ {c})
    <3>1. told' = [told EXCEPT ![c] = @ \cup {"connected"}]
      BY <1>26, <2>1 DEF ReportConnected, Tell
    <3>2. QED BY <3>1, NamesGrow
  <2>5. QED BY <2>2, <2>3, <2>4
<1>27. ASSUME NEW w \in Workers, DropClient(w)
    PROVE  \E c \in Clients : Leaves(c)
  BY <1>27 DEF DropClient, At
<1>28. ASSUME NEW w \in Workers, RemoveDropped(w)
    PROVE  Stays
  BY <1>28, Unreferenced DEF RemoveDropped, RemoveFromMap
<1>29. ASSUME NEW w \in Workers, DecrementPending(w)
    PROVE  Stays
  BY <1>29 DEF DecrementPending
<1>30. ASSUME NEW t \in Workers \cup {Starter}, AllocTcpClient(t)
    PROVE  \E c \in Clients : Moves(c, "unused", "opening")
  BY <1>30 DEF AllocTcpClient
<1>31. ASSUME NEW t \in Workers \cup {Starter}, CannotPostAccept(t)
    PROVE  Stays
  BY <1>31 DEF CannotPostAccept, AfterAccept
<1>32. ASSUME NEW t \in Workers \cup {Starter}, IncrementPending(t)
    PROVE  Stays
  BY <1>32 DEF IncrementPending, At
<1>33. ASSUME NEW t \in Workers \cup {Starter}, AcceptExSucceeds(t)
    PROVE  Stays
  BY <1>33 DEF AcceptExSucceeds, At, AfterAccept
<1>34. ASSUME NEW t \in Workers \cup {Starter}, AcceptExFails(t)
    PROVE  \E c \in Clients : Leaves(c)
  BY <1>34, Unreferenced DEF AcceptExFails, At, AfterAccept, RemoveFromMap
<1>35. ASSUME NEW t \in Workers \cup {Starter}, AcceptorFaults(t)
    PROVE  Stays
  BY <1>35 DEF AcceptorFaults
<1>36. ASSUME StartFails
    PROVE  Stays
  BY <1>36 DEF StartFails
<1>37. Stays => UNCHANGED LifeVars
  BY StaysMaps
<1>38. ASSUME NEW c \in Clients,
           \/ Reports(c) \/ Leaves(c)
           \/ Moves(c, "unused", "opening") \/ Moves(c, "opening", "open") \/ Moves(c, "open", "closing")
           \/ Moves(c, "closing", "closed") \/ Moves(c, "closed", "released")
    PROVE  Life!Next
  BY <1>38, ReportMaps, LeaveMaps, MovesMap
<1> HIDE DEF Stays, Reports, Moves, Leaves
<1>39. QED
    BY Next, <1>37, <1>38, <1>1, <1>2, <1>3, <1>4, <1>5, <1>6, <1>7, <1>8, <1>9, <1>10, <1>11, <1>12, <1>13,
       <1>14, <1>15, <1>16, <1>17, <1>18, <1>19, <1>20, <1>21, <1>22, <1>23, <1>24, <1>25, <1>26,
       <1>27, <1>28, <1>29, <1>30, <1>31, <1>32, <1>33, <1>34, <1>35, <1>36
       DEF Next, ClientNext, AcceptorNext, Kernel, TakeCompletion, CheckReleaseStep, ConnectionStep,
              AppStep, Assist, AcceptConnection, PostAccept

\* Every connection is opened, disconnected, closed and released, each once and in
\* that order, and one the application was told of skips nothing.
THEOREM ServerLivesLife ==
    ASSUME ~SpecialPostFails, ~CallbackThrows
    PROVE  Spec => LifeSpec
<1>1. Init => Life!Init
  BY ThreadsDisjoint DEF Init, Life!Init, Phase
<1>2. LifeIInv /\ [Next]_vars => [Life!Next]_LifeVars
  <2>1. CASE Next
    BY <2>1, LifeStep DEF LifeIInv, CountIInv
  <2>2. UNCHANGED vars => Stays
    BY DEF vars, poolVars, connVars, Stays, SamePhases, SameNames, Phase, Dropped, Named
  <2>3. QED BY <2>1, <2>2, StaysMaps
<1>3. QED BY <1>1, <1>2, LifeIInvCorrect, PTL DEF Spec, LifeSpec, Life!Spec, LifeVars

-----------------------------------------------------------------------------
(* The count drains to zero only for a closed socket, as long as StartNetService *)
(* has not left a client behind that it had allocated and not yet posted.        *)

\* A worker never meets a deleted acceptor between AllocTcpClient and AcceptEx.
LEMMA IdleStep ==
    ASSUME ~SpecialPostFails, RefIInv, AcceptorInv, IdleInv, Next
    PROVE  IdleInv'
<1> USE ThreadsDisjoint, CtxDisjoint, NoClientFresh
        DEF RefIInv, TypeOK, ClientTypeOK, ContextTypeOK, ThreadTypeOK, Goto, Threads, Ctx,
            poolVars, connVars, ctxVars, ConnInv, AllocInv, OnePump, PumpOp, AcceptorInv,
            AcceptorIdle, AcceptPCs, IdleInv, Dropped, StartLost, acceptorVars, WorkPCs,
            TouchingPCs, EarlyPCs, PumpPCs
<1>1. ASSUME NEW x \in Ctx, KernelCompletes(x), UNCHANGED acceptorVars
    PROVE  IdleInv'
  BY <1>1 DEF KernelCompletes
<1>2. ASSUME NEW x \in Ctx, KernelAborts(x), UNCHANGED acceptorVars
    PROVE  IdleInv'
  BY <1>2 DEF KernelAborts
<1>3. ASSUME NEW c \in Clients, GoesStale(c), UNCHANGED acceptorVars
    PROVE  IdleInv'
  BY <1>3 DEF GoesStale
<1>4. ASSUME NEW w \in Workers, NEW c \in Clients, RecvCompleted(w, c), UNCHANGED acceptorVars
    PROVE  IdleInv'
  BY <1>4 DEF RecvCompleted, Dequeue, ClientOf
<1>5. ASSUME NEW w \in Workers, NEW x \in IOContexts,
           SendCompleted(w, x), UNCHANGED acceptorVars
    PROVE  IdleInv'
  BY <1>5, SMTT(30) DEF SendCompleted, Dequeue, ReleaseContext, ClientOf
<1>6. ASSUME NEW w \in Workers, NEW x \in IOContexts,
           SpecialCompleted(w, x), UNCHANGED acceptorVars
    PROVE  IdleInv'
  BY <1>6 DEF SpecialCompleted, Dequeue, ReleaseContext, ClientOf
<1>7. ASSUME NEW w \in Workers, NEW x \in Ctx, DequeueFaults(w, x), UNCHANGED acceptorVars
    PROVE  IdleInv'
  BY <1>7 DEF DequeueFaults, ClientOf
<1>8. ASSUME NEW w \in Workers, OnRecvCompletion(w), UNCHANGED acceptorVars
    PROVE  IdleInv'
  BY <1>8 DEF OnRecvCompletion, At, Tell
<1>9. ASSUME NEW w \in Workers, PostRecv(w, "postRecv", "issueRecv"), UNCHANGED acceptorVars
    PROVE  IdleInv'
  BY <1>9 DEF PostRecv, At
<1>10. ASSUME NEW w \in Workers,
           IssueRecv(w, "issueRecv", "release", "disconnect"), UNCHANGED acceptorVars
    PROVE  IdleInv'
  BY <1>10 DEF IssueRecv, At
<1>11. ASSUME NEW w \in Workers, SetDisconnect(w), UNCHANGED acceptorVars
    PROVE  IdleInv'
  BY <1>11 DEF SetDisconnect, At
<1>12. ASSUME NEW t \in Workers \cup AppThreads, DecreaseIOCount(t), UNCHANGED acceptorVars
    PROVE  IdleInv'
  <2>1. \A u \in Threads : pc[u] \in {"issueAccept", "acceptRemove"} => pc'[u] = pc[u] /\ cur'[u] = cur[u]
    BY <1>12 DEF DecreaseIOCount, At, Return
  <2>2. UNCHANGED <<mem, recvOp>> /\ (StartLost => StartLost')
    BY <1>12 DEF DecreaseIOCount, At, Return
  <2>3. QED BY <2>1, <2>2, SMTT(30)
<1>13. ASSUME NEW t \in Workers \cup AppThreads, MarkClosed(t), UNCHANGED acceptorVars
    PROVE  IdleInv'
  BY <1>13 DEF MarkClosed, At
<1>14. ASSUME NEW t \in Workers \cup AppThreads, ReportClosed(t), UNCHANGED acceptorVars
    PROVE  IdleInv'
  <2>1. \A u \in Threads : pc[u] \in {"issueAccept", "acceptRemove"} => pc'[u] = pc[u] /\ cur'[u] = cur[u]
    BY <1>14 DEF ReportClosed, At, Return
  <2>2. UNCHANGED <<mem, recvOp>> /\ (StartLost => StartLost')
    BY <1>14 DEF ReportClosed, At, Return
  <2>3. QED BY <2>1, <2>2, SMTT(30)
<1>15. ASSUME NEW t \in Workers \cup AppThreads, RemoveClient(t), UNCHANGED acceptorVars
    PROVE  IdleInv'
  <2>1. \A u \in Threads : pc[u] \in {"issueAccept", "acceptRemove"} => pc'[u] = pc[u] /\ cur'[u] = cur[u]
    BY <1>15 DEF RemoveClient, At, Return
  <2>2. UNCHANGED recvOp /\ \A d \in Clients : mem'[d] = "live" => mem[d] = "live"
    BY <1>15 DEF RemoveClient, RemoveFromMap
  <2>3. StartLost => StartLost'
    BY <1>15 DEF RemoveClient, At, Return
  <2>4. QED BY <2>1, <2>2, <2>3
<1>16. ASSUME NEW a \in AppThreads, NEW c \in Clients, FindClient(a, c), UNCHANGED acceptorVars
    PROVE  IdleInv'
  BY <1>16 DEF FindClient
<1>17. ASSUME NEW a \in AppThreads, PostSend(a), UNCHANGED acceptorVars
    PROVE  IdleInv'
  BY <1>17 DEF PostSend, At, UseContext, FreeContexts
<1>18. ASSUME NEW a \in AppThreads, CloseSocket(a), UNCHANGED acceptorVars
    PROVE  IdleInv'
  BY <1>18 DEF CloseSocket, At, PostSpecial, UseContext, FreeContexts
<1>19. ASSUME NEW a \in AppThreads, UnRef(a), UNCHANGED acceptorVars
    PROVE  IdleInv'
  BY <1>19 DEF UnRef, At
<1>20. ASSUME NEW t \in Threads, Faults(t), UNCHANGED acceptorVars
    PROVE  IdleInv'
  BY <1>20 DEF Faults
<1>21. ASSUME NEW c \in Clients, CheckStatus(c), UNCHANGED acceptorVars
    PROVE  IdleInv'
  BY <1>21 DEF CheckStatus, PostSpecial, UseContext, FreeContexts, Unused
<1>22. ASSUME NEW c \in Clients, CheckStatusFails(c), UNCHANGED acceptorVars
    PROVE  IdleInv'
  BY <1>22 DEF CheckStatusFails, PostSpecialFails
<1>23. ASSUME NEW w \in Workers, NEW c \in Clients, AcceptCompleted(w, c)
    PROVE  IdleInv'
  <2>1. \A u \in Threads : pc[u] \in {"issueAccept", "acceptRemove"} => pc'[u] = pc[u] /\ cur'[u] = cur[u]
    BY <1>23 DEF AcceptCompleted
  <2>2. UNCHANGED <<mem, recvOp>> /\ (StartLost => StartLost')
    BY <1>23 DEF AcceptCompleted
  <2>3. QED BY <2>1, <2>2
<1>24. ASSUME NEW w \in Workers,
           PostRecv(w, "acceptPostRecv", "acceptIssueRecv"), UNCHANGED acceptorVars
    PROVE  IdleInv'
  BY <1>24 DEF PostRecv, At
<1>25. ASSUME NEW w \in Workers,
           IssueRecv(w, "acceptIssueRecv", "accepted", "acceptFailed"), UNCHANGED acceptorVars
    PROVE  IdleInv'
  BY <1>25 DEF IssueRecv, At
<1>26. ASSUME NEW w \in Workers, ReportConnected(w)
    PROVE  IdleInv'
  BY <1>26, SMTT(30) DEF ReportConnected, At, Tell
<1>27. ASSUME NEW w \in Workers, DropClient(w)
    PROVE  IdleInv'
  BY <1>27 DEF DropClient, At
<1>28. ASSUME NEW w \in Workers, RemoveDropped(w)
    PROVE  IdleInv'
  <2>1. PICK c \in Clients : c = cur[w] /\ recvOp[c] = "idle" /\ mem[c] # "unused"
    BY <1>28 DEF RemoveDropped
  <2>2. refCount[c] = 0
    BY <2>1, Unreferenced
  <2>3. mem'[c] = "freed" /\ \A d \in Clients \ {c} : mem'[d] = mem[d]
    BY <1>28, <2>1, <2>2 DEF RemoveDropped, RemoveFromMap
  <2>4. QED BY <1>28, <2>1, <2>3 DEF RemoveDropped
<1>29. ASSUME NEW w \in Workers, DecrementPending(w)
    PROVE  IdleInv'
  BY <1>29 DEF DecrementPending
<1>30. ASSUME NEW t \in Workers \cup {Starter}, AllocTcpClient(t)
    PROVE  IdleInv'
  BY <1>30 DEF AllocTcpClient
<1>31. ASSUME NEW t \in Workers \cup {Starter}, CannotPostAccept(t)
    PROVE  IdleInv'
  BY <1>31 DEF CannotPostAccept, AfterAccept
<1>32. ASSUME NEW t \in Workers \cup {Starter}, IncrementPending(t)
    PROVE  IdleInv'
  BY <1>32 DEF IncrementPending, At
<1>33. ASSUME NEW t \in Workers \cup {Starter}, AcceptExSucceeds(t)
    PROVE  IdleInv'
  BY <1>33 DEF AcceptExSucceeds, At, AfterAccept
<1>34. ASSUME NEW t \in Workers \cup {Starter}, AcceptExFails(t)
    PROVE  IdleInv'
  BY <1>34 DEF AcceptExFails, At, AfterAccept, RemoveFromMap
<1>35. ASSUME NEW t \in Workers \cup {Starter}, AcceptorFaults(t)
    PROVE  IdleInv'
  BY <1>35 DEF AcceptorFaults
<1>36. ASSUME StartFails
    PROVE  IdleInv'
  BY <1>36 DEF StartFails
<1>37. QED
    BY Next, <1>1, <1>2, <1>3, <1>4, <1>5, <1>6, <1>7, <1>8, <1>9, <1>10, <1>11, <1>12, <1>13,
       <1>14, <1>15, <1>16, <1>17, <1>18, <1>19, <1>20, <1>21, <1>22, <1>23, <1>24, <1>25, <1>26,
       <1>27, <1>28, <1>29, <1>30, <1>31, <1>32, <1>33, <1>34, <1>35, <1>36
       DEF Next, ClientNext, AcceptorNext, Kernel, TakeCompletion, CheckReleaseStep, ConnectionStep,
              AppStep, Assist, AcceptConnection, PostAccept

\* The last count is taken on a connection that was open once.
LEMMA DrainedClosedStep ==
    ASSUME ~SpecialPostFails, ~CallbackThrows, RefIInv, IOCounted, LifeInv, AcceptorInv, IdleInv, Next, DrainedClosed
    PROVE  DrainedClosed'
<1> USE ThreadsDisjoint, CtxDisjoint, NoClientFresh
        DEF RefIInv, TypeOK, ClientTypeOK, ContextTypeOK, ThreadTypeOK, Goto, Threads, Ctx,
            poolVars, connVars, ctxVars, ConnInv, AllocInv, OnePump, PumpOp, WorkPCs, TouchingPCs,
            EarlyPCs, PumpPCs, StartLost, LifeInv, SocketInv, QuietInv, Quiet, Over, EndPCs,
            DrainedClosed, ZeroMeansClosed
<1>1. ASSUME NEW x \in Ctx, KernelCompletes(x), UNCHANGED acceptorVars
    PROVE  DrainedClosed'
  BY <1>1 DEF KernelCompletes
<1>2. ASSUME NEW x \in Ctx, KernelAborts(x), UNCHANGED acceptorVars
    PROVE  DrainedClosed'
  BY <1>2 DEF KernelAborts
<1>3. ASSUME NEW c \in Clients, GoesStale(c), UNCHANGED acceptorVars
    PROVE  DrainedClosed'
  BY <1>3 DEF GoesStale
<1>4. ASSUME NEW w \in Workers, NEW c \in Clients, RecvCompleted(w, c), UNCHANGED acceptorVars
    PROVE  DrainedClosed'
  BY <1>4 DEF RecvCompleted, Dequeue, ClientOf
<1>5. ASSUME NEW w \in Workers, NEW x \in IOContexts,
           SendCompleted(w, x), UNCHANGED acceptorVars
    PROVE  DrainedClosed'
  BY <1>5 DEF SendCompleted, Dequeue, ReleaseContext, ClientOf
<1>6. ASSUME NEW w \in Workers, NEW x \in IOContexts,
           SpecialCompleted(w, x), UNCHANGED acceptorVars
    PROVE  DrainedClosed'
  BY <1>6 DEF SpecialCompleted, Dequeue, ReleaseContext, ClientOf
<1>7. ASSUME NEW w \in Workers, NEW x \in Ctx, DequeueFaults(w, x), UNCHANGED acceptorVars
    PROVE  DrainedClosed'
  BY <1>7 DEF DequeueFaults, ClientOf
<1>8. ASSUME NEW w \in Workers, OnRecvCompletion(w), UNCHANGED acceptorVars
    PROVE  DrainedClosed'
  BY <1>8 DEF OnRecvCompletion, At, Tell
<1>9. ASSUME NEW w \in Workers, PostRecv(w, "postRecv", "issueRecv"), UNCHANGED acceptorVars
    PROVE  DrainedClosed'
  BY <1>9 DEF PostRecv, At
<1>10. ASSUME NEW w \in Workers,
           IssueRecv(w, "issueRecv", "release", "disconnect"), UNCHANGED acceptorVars
    PROVE  DrainedClosed'
  BY <1>10 DEF IssueRecv, At
<1>11. ASSUME NEW w \in Workers, SetDisconnect(w), UNCHANGED acceptorVars
    PROVE  DrainedClosed'
  BY <1>11 DEF SetDisconnect, At
<1>12. ASSUME NEW t \in Workers \cup AppThreads, DecreaseIOCount(t), UNCHANGED acceptorVars
    PROVE  DrainedClosed'
  <2>1. SUFFICES ASSUME ~StartLost, pendingIO[cur[t]] = 1
                 PROVE  connState[cur[t]] # "CONNECTED" /\ socket[cur[t]] = "invalid"
    BY <1>12 DEF DecreaseIOCount, At, Return
  <2>2. PICK c \in Clients : c = cur[t] /\ mem[c] = "live" /\ pc[t] = "release"
    BY <1>12 DEF DecreaseIOCount, At
  <2>3. connState[c] # "CONNECTED"
    BY <1>12, <2>1, <2>2, LastCount DEF DecreaseIOCount, At
  <2>4. Opened(c) /\ ~Dropped(c)
    BY <2>1, <2>2 DEF OpenedInv, PastPCs, DroppedDrained
  <2>5. recvOp[c] # "idle"
    BY <2>1, <2>2, <2>4 DEF IdleInv, Opened
  <2>6. QED BY <2>2, <2>3, <2>4, <2>5 DEF Opened
<1>13. ASSUME NEW t \in Workers \cup AppThreads, MarkClosed(t), UNCHANGED acceptorVars
    PROVE  DrainedClosed'
  BY <1>13 DEF MarkClosed, At
<1>14. ASSUME NEW t \in Workers \cup AppThreads, ReportClosed(t), UNCHANGED acceptorVars
    PROVE  DrainedClosed'
  BY <1>14 DEF ReportClosed, At, Return, Tell
<1>15. ASSUME NEW t \in Workers \cup AppThreads, RemoveClient(t), UNCHANGED acceptorVars
    PROVE  DrainedClosed'
  BY <1>15 DEF RemoveClient, At, Return, RemoveFromMap
<1>16. ASSUME NEW a \in AppThreads, NEW c \in Clients, FindClient(a, c), UNCHANGED acceptorVars
    PROVE  DrainedClosed'
  BY <1>16 DEF FindClient
<1>17. ASSUME NEW a \in AppThreads, PostSend(a), UNCHANGED acceptorVars
    PROVE  DrainedClosed'
  BY <1>17 DEF PostSend, At, UseContext, FreeContexts
<1>18. ASSUME NEW a \in AppThreads, CloseSocket(a), UNCHANGED acceptorVars
    PROVE  DrainedClosed'
  BY <1>18 DEF CloseSocket, At, PostSpecial, UseContext, FreeContexts
<1>19. ASSUME NEW a \in AppThreads, UnRef(a), UNCHANGED acceptorVars
    PROVE  DrainedClosed'
  BY <1>19 DEF UnRef, At
<1>20. ASSUME NEW t \in Threads, Faults(t), UNCHANGED acceptorVars
    PROVE  DrainedClosed'
  BY <1>20 DEF Faults
<1>21. ASSUME NEW c \in Clients, CheckStatus(c), UNCHANGED acceptorVars
    PROVE  DrainedClosed'
  BY <1>21 DEF CheckStatus, PostSpecial, UseContext, FreeContexts, Unused
<1>22. ASSUME NEW c \in Clients, CheckStatusFails(c), UNCHANGED acceptorVars
    PROVE  DrainedClosed'
  BY <1>22 DEF CheckStatusFails, PostSpecialFails
<1>23. ASSUME NEW w \in Workers, NEW c \in Clients, AcceptCompleted(w, c)
    PROVE  DrainedClosed'
  BY <1>23 DEF AcceptCompleted
<1>24. ASSUME NEW w \in Workers,
           PostRecv(w, "acceptPostRecv", "acceptIssueRecv"), UNCHANGED acceptorVars
    PROVE  DrainedClosed'
  BY <1>24 DEF PostRecv, At
<1>25. ASSUME NEW w \in Workers,
           IssueRecv(w, "acceptIssueRecv", "accepted", "acceptFailed"), UNCHANGED acceptorVars
    PROVE  DrainedClosed'
  BY <1>25 DEF IssueRecv, At
<1>26. ASSUME NEW w \in Workers, ReportConnected(w)
    PROVE  DrainedClosed'
  BY <1>26 DEF ReportConnected, At, Tell
<1>27. ASSUME NEW w \in Workers, DropClient(w)
    PROVE  DrainedClosed'
  BY <1>27 DEF DropClient, At
<1>28. ASSUME NEW w \in Workers, RemoveDropped(w)
    PROVE  DrainedClosed'
  BY <1>28 DEF RemoveDropped, RemoveFromMap
<1>29. ASSUME NEW w \in Workers, DecrementPending(w)
    PROVE  DrainedClosed'
  BY <1>29 DEF DecrementPending
<1>30. ASSUME NEW t \in Workers \cup {Starter}, AllocTcpClient(t)
    PROVE  DrainedClosed'
  BY <1>30 DEF AllocTcpClient
<1>31. ASSUME NEW t \in Workers \cup {Starter}, CannotPostAccept(t)
    PROVE  DrainedClosed'
  BY <1>31 DEF CannotPostAccept, AfterAccept
<1>32. ASSUME NEW t \in Workers \cup {Starter}, IncrementPending(t)
    PROVE  DrainedClosed'
  BY <1>32 DEF IncrementPending, At
<1>33. ASSUME NEW t \in Workers \cup {Starter}, AcceptExSucceeds(t)
    PROVE  DrainedClosed'
  BY <1>33 DEF AcceptExSucceeds, At, AfterAccept
<1>34. ASSUME NEW t \in Workers \cup {Starter}, AcceptExFails(t)
    PROVE  DrainedClosed'
  BY <1>34 DEF AcceptExFails, At, AfterAccept, RemoveFromMap
<1>35. ASSUME NEW t \in Workers \cup {Starter}, AcceptorFaults(t)
    PROVE  DrainedClosed'
  BY <1>35 DEF AcceptorFaults
<1>36. ASSUME StartFails
    PROVE  DrainedClosed'
  BY <1>36 DEF StartFails
<1>37. QED
    BY Next, <1>1, <1>2, <1>3, <1>4, <1>5, <1>6, <1>7, <1>8, <1>9, <1>10, <1>11, <1>12, <1>13,
       <1>14, <1>15, <1>16, <1>17, <1>18, <1>19, <1>20, <1>21, <1>22, <1>23, <1>24, <1>25, <1>26,
       <1>27, <1>28, <1>29, <1>30, <1>31, <1>32, <1>33, <1>34, <1>35, <1>36
       DEF Next, ClientNext, AcceptorNext, Kernel, TakeCompletion, CheckReleaseStep, ConnectionStep,
              AppStep, Assist, AcceptConnection, PostAccept

\* Whoever finds the last count gone finds the connection disconnected and its
\* socket closed: nothing new can be started on it.
THEOREM DrainedMeansClosed ==
    ASSUME ~SpecialPostFails, ~CallbackThrows
    PROVE  Spec => [](~StartLost => ZeroMeansClosed)
<1> DEFINE I == LifeIInv /\ AcceptorInv /\ IdleInv /\ DrainedClosed
<1>1. Init => I
  <2> SUFFICES ASSUME Init PROVE IdleInv /\ DrainedClosed
    BY LifeIInvInit, NoAccepts
  <2>1. QED BY DEF Init, Threads, IdleInv, DrainedClosed, ZeroMeansClosed
<1>2. I /\ [Next]_vars => I'
  <2> SUFFICES ASSUME I, [Next]_vars PROVE I'
    OBVIOUS
  <2>1. LifeIInv' /\ AcceptorInv'
    BY LifeIInvStep, AcceptorInvStep DEF LifeIInv, CountIInv
  <2>2. CASE Next
    BY <2>1, <2>2, IdleStep, DrainedClosedStep DEF LifeIInv, CountIInv
  <2>3. CASE UNCHANGED vars
    <3>1. IdleInv' /\ DrainedClosed'
      BY <2>3 DEF vars, poolVars, connVars, IdleInv, DrainedClosed, StartLost, ZeroMeansClosed, Dropped
    <3>2. QED BY <2>1, <3>1
  <2>4. QED BY <2>2, <2>3
<1>3. I => (~StartLost => ZeroMeansClosed)
  BY DEF DrainedClosed
<1> HIDE DEF I
<1>4. QED BY <1>1, <1>2, <1>3, PTL DEF Spec
=============================================================================
