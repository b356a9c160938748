-------------------------- MODULE HttpService_proofs --------------------------
(***************************************************************************)
(* The packet queue under the HTTP service's threads, for any numbers of    *)
(* buffers, workers, readers and requests: types, no buffer lost or owned   *)
(* twice, no packet without its count of the semaphore, no buffer used     *)
(* after the pool is gone, and the requests passed on in order, each at     *)
(* most once.  A reader may be terminated anywhere.                         *)
(***************************************************************************)
EXTENDS HttpService, FiniteSetTheorems, SequenceTheorems, WellFoundedInduction, TLAPS

\* A buffer is in a thread's hand exactly between the steps that give and take it.
HandInv ==
    /\ \A w \in Workers : wpc[w] \in {"write", "push"} <=> wbuf[w] # NoBuffer
    /\ \A w \in Workers : wpc[w] # "idle" => wreq[w] \in Requests
    /\ \A r \in Readers : rpc[r] \in {"handle", "release", "free"} => rbuf[r] # NoBuffer
    /\ \A r \in Readers :
          rbuf[r] # NoBuffer => rpc[r] \in {"handle", "release", "free", "killed"}

\* Before there is a pool there is nothing to do; no thread runs before Start starts it.
StartInv ==
    /\ mainPC \in {"init", "threads"} => \A r \in Readers : rpc[r] = "none"
    /\ mainPC = "init" => m_pool = "none"
    /\ m_pool = "none" =>
          /\ m_queue = <<>> /\ m_sem = 0
          /\ \A w \in Workers : wbuf[w] = NoBuffer
          /\ \A r \in Readers : rbuf[r] = NoBuffer
    /\ m_pool = "none" => \A r \in Readers : rpc[r] \notin {"lock", "pop"}

\* Alloc that finds a buffer.
AllocInto(w, b) ==
    /\ wpc[w] = "alloc"
    /\ AllocWritePacket(b)
    /\ wbuf' = [wbuf EXCEPT ![w] = b]
    /\ wpc' = [wpc EXCEPT ![w] = "write"]
    /\ UNCHANGED <<controlVars, readerVars, wreq, arrived, refused>>

LEMMA AllocCases ==
    ASSUME NEW w \in Workers, Alloc(w)
    PROVE  \/ wpc[w] = "alloc" /\ RefuseRequest(w)
           \/ \E b \in m_freeList : AllocInto(w, b)
BY DEF Alloc, AllocInto

LEMMA QueueTypes == TypeOK /\ HandInv /\ [Next]_vars => QueueTypeOK'
<1> SUFFICES ASSUME TypeOK, HandInv, [Next]_vars PROVE QueueTypeOK'
  OBVIOUS
<1> USE PoolAssumption, HttpAssumption DEF TypeOK, QueueTypeOK, ThreadTypeOK
<1>1. ASSUME NEW w \in Workers, NEW q \in Requests, Receive(w, q)
      PROVE  QueueTypeOK'
  BY <1>1 DEF Receive, queueVars
<1>2. ASSUME NEW w \in Workers, wpc[w] = "alloc", RefuseRequest(w)
      PROVE  QueueTypeOK'
  BY <1>2 DEF RefuseRequest, queueVars
<1>3. ASSUME NEW w \in Workers, NEW b \in m_freeList, AllocInto(w, b)
      PROVE  QueueTypeOK'
  BY <1>3 DEF AllocInto, AllocWritePacket
<1>4. ASSUME NEW w \in Workers, WriteBoth(w)
      PROVE  QueueTypeOK'
  BY <1>4 DEF WriteBoth
<1>5. ASSUME NEW w \in Workers, PushPacket(w)
      PROVE  QueueTypeOK'
  <2>1. wbuf[w] \in Buffers
    BY <1>5 DEF PushPacket, HandInv
  <2>2. QED BY <1>5, <2>1 DEF PushPacket, Push
<1>6. ASSUME NEW r \in Readers, LoopTest(r)
      PROVE  QueueTypeOK'
  BY <1>6 DEF LoopTest, queueVars
<1>7. ASSUME NEW r \in Readers, WaitToken(r)
      PROVE  QueueTypeOK'
  BY <1>7 DEF WaitToken, SemWait
<1>8. ASSUME NEW r \in Readers, WaitTimeout(r)
      PROVE  QueueTypeOK'
  BY <1>8 DEF WaitTimeout, queueVars
<1>9. ASSUME NEW r \in Readers, LockToPop(r)
      PROVE  QueueTypeOK'
  BY <1>9 DEF LockToPop, EnterLock
<1>10. ASSUME NEW r \in Readers, Pop(r)
      PROVE  QueueTypeOK'
  <2>1. m_queue # <<>> => Tail(m_queue) \in Seq(Buffers)
    BY HeadTailProperties
  <2>2. QED BY <1>10, <2>1 DEF Pop, PopLocked
<1>11. ASSUME NEW r \in Readers, Handle(r)
      PROVE  QueueTypeOK'
  BY <1>11 DEF Handle, queueVars
<1>12. ASSUME NEW r \in Readers, LockToRelease(r)
      PROVE  QueueTypeOK'
  BY <1>12 DEF LockToRelease, EnterLock
<1>13. ASSUME NEW r \in Readers, ReleasePacket(r)
      PROVE  QueueTypeOK'
  <2>1. rbuf[r] \in Buffers
    BY <1>13 DEF ReleasePacket, HandInv
  <2>2. QED BY <1>13, <2>1 DEF ReleasePacket, Release
<1>14. ASSUME InitQueueOK
      PROVE  QueueTypeOK'
  <2>1. Cardinality(Buffers) \in Int
    BY FS_CardinalityType
  <2>2. QED BY <1>14, <2>1 DEF InitQueueOK, InitPool
<1>15. ASSUME InitQueueFails
      PROVE  QueueTypeOK'
  BY <1>15 DEF InitQueueFails, Uninit
<1>16. ASSUME StartThreads
      PROVE  QueueTypeOK'
  BY <1>16 DEF StartThreads, queueVars
<1>17. ASSUME StartNetService
      PROVE  QueueTypeOK'
  BY <1>17 DEF StartNetService, queueVars
<1>18. ASSUME CallStop
      PROVE  QueueTypeOK'
  BY <1>18 DEF CallStop, queueVars
<1>19. ASSUME SetStop
      PROVE  QueueTypeOK'
  BY <1>19 DEF SetStop, queueVars
<1>20. ASSUME StopNetService
      PROVE  QueueTypeOK'
  BY <1>20 DEF StopNetService, queueVars
<1>21. ASSUME NEW r \in Readers, JoinThread(r)
      PROVE  QueueTypeOK'
  BY <1>21 DEF JoinThread, queueVars
<1>22. ASSUME StopReturns
      PROVE  QueueTypeOK'
  BY <1>22 DEF StopReturns, queueVars
<1>23. ASSUME Destroy
      PROVE  QueueTypeOK'
  BY <1>23 DEF Destroy, Uninit
<1>24. ASSUME UNCHANGED vars
      PROVE  QueueTypeOK'
  BY <1>24 DEF vars, queueVars
<1>25. QED
  BY <1>1, <1>2, <1>3, <1>4, <1>5, <1>6, <1>7, <1>8, <1>9, <1>10, <1>11, <1>12, <1>13,
     <1>14, <1>15, <1>16, <1>17, <1>18, <1>19, <1>20, <1>21, <1>22, <1>23, <1>24, AllocCases
  DEF Next, WorkerStep, ReaderStep, MainStep

LEMMA ControlTypes == TypeOK /\ [Next]_vars => ControlTypeOK'
<1> SUFFICES ASSUME TypeOK, [Next]_vars PROVE ControlTypeOK'
  OBVIOUS
<1> USE DEF TypeOK, ControlTypeOK
<1>1. ASSUME NEW w \in Workers, NEW q \in Requests, Receive(w, q)
      PROVE  ControlTypeOK'
  BY <1>1 DEF Receive, controlVars
<1>2. ASSUME NEW w \in Workers, wpc[w] = "alloc", RefuseRequest(w)
      PROVE  ControlTypeOK'
  BY <1>2 DEF RefuseRequest, controlVars
<1>3. ASSUME NEW w \in Workers, NEW b \in m_freeList, AllocInto(w, b)
      PROVE  ControlTypeOK'
  BY <1>3 DEF AllocInto, controlVars
<1>4. ASSUME NEW w \in Workers, WriteBoth(w)
      PROVE  ControlTypeOK'
  BY <1>4 DEF WriteBoth, controlVars
<1>5. ASSUME NEW w \in Workers, PushPacket(w)
      PROVE  ControlTypeOK'
  BY <1>5 DEF PushPacket, controlVars
<1>6. ASSUME NEW r \in Readers, LoopTest(r)
      PROVE  ControlTypeOK'
  BY <1>6 DEF LoopTest, controlVars
<1>7. ASSUME NEW r \in Readers, WaitToken(r)
      PROVE  ControlTypeOK'
  BY <1>7 DEF WaitToken, controlVars
<1>8. ASSUME NEW r \in Readers, WaitTimeout(r)
      PROVE  ControlTypeOK'
  BY <1>8 DEF WaitTimeout, controlVars
<1>9. ASSUME NEW r \in Readers, LockToPop(r)
      PROVE  ControlTypeOK'
  BY <1>9 DEF LockToPop, controlVars
<1>10. ASSUME NEW r \in Readers, Pop(r)
      PROVE  ControlTypeOK'
  BY <1>10 DEF Pop, controlVars
<1>11. ASSUME NEW r \in Readers, Handle(r)
      PROVE  ControlTypeOK'
  BY <1>11 DEF Handle, controlVars
<1>12. ASSUME NEW r \in Readers, LockToRelease(r)
      PROVE  ControlTypeOK'
  BY <1>12 DEF LockToRelease, controlVars
<1>13. ASSUME NEW r \in Readers, ReleasePacket(r)
      PROVE  ControlTypeOK'
  BY <1>13 DEF ReleasePacket, controlVars
<1>14. ASSUME InitQueueOK
      PROVE  ControlTypeOK'
  BY <1>14 DEF InitQueueOK, MainTo
<1>15. ASSUME InitQueueFails
      PROVE  ControlTypeOK'
  BY <1>15 DEF InitQueueFails, MainTo
<1>16. ASSUME StartThreads
      PROVE  ControlTypeOK'
  BY <1>16 DEF StartThreads, MainTo
<1>17. ASSUME StartNetService
      PROVE  ControlTypeOK'
  BY <1>17 DEF StartNetService, MainTo
<1>18. ASSUME CallStop
      PROVE  ControlTypeOK'
  BY <1>18 DEF CallStop, MainTo
<1>19. ASSUME SetStop
      PROVE  ControlTypeOK'
  BY <1>19 DEF SetStop, MainTo
<1>20. ASSUME StopNetService
      PROVE  ControlTypeOK'
  BY <1>20 DEF StopNetService, MainTo
<1>21. ASSUME NEW r \in Readers, JoinThread(r)
      PROVE  ControlTypeOK'
  BY <1>21 DEF JoinThread, MainTo
<1>22. ASSUME StopReturns
      PROVE  ControlTypeOK'
  BY <1>22 DEF StopReturns, MainTo
<1>23. ASSUME Destroy
      PROVE  ControlTypeOK'
  BY <1>23 DEF Destroy, MainTo
<1>24. ASSUME UNCHANGED vars
      PROVE  ControlTypeOK'
  BY <1>24 DEF vars, controlVars
<1>25. QED
  BY <1>1, <1>2, <1>3, <1>4, <1>5, <1>6, <1>7, <1>8, <1>9, <1>10, <1>11, <1>12, <1>13,
     <1>14, <1>15, <1>16, <1>17, <1>18, <1>19, <1>20, <1>21, <1>22, <1>23, <1>24, AllocCases
  DEF Next, WorkerStep, ReaderStep, MainStep

LEMMA ThreadTypes == TypeOK /\ [Next]_vars => ThreadTypeOK'
<1> SUFFICES ASSUME TypeOK, [Next]_vars PROVE ThreadTypeOK'
  OBVIOUS
<1> USE PoolAssumption DEF TypeOK, ThreadTypeOK
<1>1. ASSUME NEW w \in Workers, NEW q \in Requests, Receive(w, q)
      PROVE  ThreadTypeOK'
  BY <1>1 DEF Receive, readerVars
<1>2. ASSUME NEW w \in Workers, wpc[w] = "alloc", RefuseRequest(w)
      PROVE  ThreadTypeOK'
  BY <1>2 DEF RefuseRequest, readerVars
<1>3. ASSUME NEW w \in Workers, NEW b \in m_freeList, AllocInto(w, b)
      PROVE  ThreadTypeOK'
  BY <1>3 DEF AllocInto, AllocWritePacket, QueueTypeOK, readerVars
<1>4. ASSUME NEW w \in Workers, WriteBoth(w)
      PROVE  ThreadTypeOK'
  BY <1>4 DEF WriteBoth, readerVars
<1>5. ASSUME NEW w \in Workers, PushPacket(w)
      PROVE  ThreadTypeOK'
  BY <1>5 DEF PushPacket, readerVars
<1>6. ASSUME NEW r \in Readers, LoopTest(r)
      PROVE  ThreadTypeOK'
  BY <1>6 DEF LoopTest, workerVars
<1>7. ASSUME NEW r \in Readers, WaitToken(r)
      PROVE  ThreadTypeOK'
  BY <1>7 DEF WaitToken, workerVars
<1>8. ASSUME NEW r \in Readers, WaitTimeout(r)
      PROVE  ThreadTypeOK'
  BY <1>8 DEF WaitTimeout, workerVars
<1>9. ASSUME NEW r \in Readers, LockToPop(r)
      PROVE  ThreadTypeOK'
  BY <1>9 DEF LockToPop, workerVars
<1>10. ASSUME NEW r \in Readers, Pop(r)
      PROVE  ThreadTypeOK'
  <2>1. m_queue # <<>> => Head(m_queue) \in Buffers
    BY DEF QueueTypeOK
  <2>2. QED BY <1>10, <2>1 DEF Pop, PopLocked, workerVars
<1>11. ASSUME NEW r \in Readers, Handle(r)
      PROVE  ThreadTypeOK'
  BY <1>11 DEF Handle, workerVars
<1>12. ASSUME NEW r \in Readers, LockToRelease(r)
      PROVE  ThreadTypeOK'
  BY <1>12 DEF LockToRelease, workerVars
<1>13. ASSUME NEW r \in Readers, ReleasePacket(r)
      PROVE  ThreadTypeOK'
  BY <1>13 DEF ReleasePacket, workerVars
<1>14. ASSUME InitQueueOK
      PROVE  ThreadTypeOK'
  BY <1>14 DEF InitQueueOK, MainTo, workerVars
<1>15. ASSUME InitQueueFails
      PROVE  ThreadTypeOK'
  BY <1>15 DEF InitQueueFails, MainTo, workerVars
<1>16. ASSUME StartThreads
      PROVE  ThreadTypeOK'
  BY <1>16 DEF StartThreads, MainTo, workerVars
<1>17. ASSUME StartNetService
      PROVE  ThreadTypeOK'
  BY <1>17 DEF StartNetService, MainTo, workerVars
<1>18. ASSUME CallStop
      PROVE  ThreadTypeOK'
  BY <1>18 DEF CallStop, MainTo, workerVars
<1>19. ASSUME SetStop
      PROVE  ThreadTypeOK'
  BY <1>19 DEF SetStop, MainTo, workerVars
<1>20. ASSUME StopNetService
      PROVE  ThreadTypeOK'
  BY <1>20 DEF StopNetService, MainTo, workerVars
<1>21. ASSUME NEW r \in Readers, JoinThread(r)
      PROVE  ThreadTypeOK'
  BY <1>21 DEF JoinThread, MainTo, workerVars
<1>22. ASSUME StopReturns
      PROVE  ThreadTypeOK'
  BY <1>22 DEF StopReturns, MainTo, workerVars
<1>23. ASSUME Destroy
      PROVE  ThreadTypeOK'
  BY <1>23 DEF Destroy, MainTo, workerVars
<1>24. ASSUME UNCHANGED vars
      PROVE  ThreadTypeOK'
  BY <1>24 DEF vars, workerVars, readerVars
<1>25. QED
  BY <1>1, <1>2, <1>3, <1>4, <1>5, <1>6, <1>7, <1>8, <1>9, <1>10, <1>11, <1>12, <1>13,
     <1>14, <1>15, <1>16, <1>17, <1>18, <1>19, <1>20, <1>21, <1>22, <1>23, <1>24, AllocCases
  DEF Next, WorkerStep, ReaderStep, MainStep

LEMMA RequestTypes == TypeOK /\ HandInv /\ [Next]_vars => RequestTypeOK'
<1> SUFFICES ASSUME TypeOK, HandInv, [Next]_vars PROVE RequestTypeOK'
  OBVIOUS
<1> USE PoolAssumption, HttpAssumption DEF TypeOK, RequestTypeOK
<1>1. ASSUME NEW w \in Workers, NEW q \in Requests, Receive(w, q)
      PROVE  RequestTypeOK'
  BY <1>1 DEF Receive, queueVars, readerVars
<1>2. ASSUME NEW w \in Workers, wpc[w] = "alloc", RefuseRequest(w)
      PROVE  RequestTypeOK'
  BY <1>2 DEF RefuseRequest, queueVars, readerVars, ThreadTypeOK, HandInv
<1>3. ASSUME NEW w \in Workers, NEW b \in m_freeList, AllocInto(w, b)
      PROVE  RequestTypeOK'
  <2>1. content' = [content EXCEPT ![b] = <<>>]
    BY <1>3 DEF AllocInto, AllocWritePacket
  <2>2. <<>> \in Seq(Requests \union {Header})
    OBVIOUS
  <2>3. content' \in [Buffers -> Seq(Requests \union {Header})]
    BY <2>1, <2>2
  <2>4. QED BY <1>3, <2>3 DEF AllocInto, readerVars
<1>4. ASSUME NEW w \in Workers, WriteBoth(w)
      PROVE  RequestTypeOK'
  <2> DEFINE Packets == Seq(Requests \union {Header})
  <2>1. \A s \in Packets, p \in Requests \union {Header} : Write(s, p) \in Packets
    BY DEF Write
  <2>2. wreq[w] \in Requests \union {Header}
    BY DEF ThreadTypeOK
  <2>3. content[wbuf[w]] \in Packets
    BY <1>4 DEF WriteBoth, HandInv, ThreadTypeOK
  <2>4. Write(Write(content[wbuf[w]], Header), wreq[w]) \in Packets
    BY <2>1, <2>2, <2>3
  <2>5. content' \in [Buffers -> Packets]
    BY <1>4, <2>4 DEF WriteBoth
  <2>6. QED BY <1>4, <2>5 DEF WriteBoth, readerVars
<1>5. ASSUME NEW w \in Workers, PushPacket(w)
      PROVE  RequestTypeOK'
  BY <1>5 DEF PushPacket, Push, readerVars
<1>6. ASSUME NEW r \in Readers, LoopTest(r)
      PROVE  RequestTypeOK'
  BY <1>6 DEF LoopTest, queueVars, workerVars
<1>7. ASSUME NEW r \in Readers, WaitToken(r)
      PROVE  RequestTypeOK'
  BY <1>7 DEF WaitToken, SemWait, workerVars
<1>8. ASSUME NEW r \in Readers, WaitTimeout(r)
      PROVE  RequestTypeOK'
  BY <1>8 DEF WaitTimeout, queueVars, workerVars
<1>9. ASSUME NEW r \in Readers, LockToPop(r)
      PROVE  RequestTypeOK'
  BY <1>9 DEF LockToPop, EnterLock, workerVars
<1>10. ASSUME NEW r \in Readers, Pop(r)
      PROVE  RequestTypeOK'
  BY <1>10 DEF Pop, PopLocked, workerVars
<1>11. ASSUME NEW r \in Readers, Handle(r)
      PROVE  RequestTypeOK'
  <2>1. content[rbuf[r]] \in Seq(Requests \union {Header})
    BY <1>11 DEF Handle, HandInv, ThreadTypeOK
  <2>2. Len(content[rbuf[r]]) = 2 => content[rbuf[r]][2] \in Requests \union {Header}
    BY <2>1
  <2>3. handled' \in Seq(Requests \union {Header})
    BY <1>11, <2>2 DEF Handle
  <2>4. QED BY <1>11, <2>3 DEF Handle, queueVars, workerVars
<1>12. ASSUME NEW r \in Readers, LockToRelease(r)
      PROVE  RequestTypeOK'
  BY <1>12 DEF LockToRelease, EnterLock, workerVars
<1>13. ASSUME NEW r \in Readers, ReleasePacket(r)
      PROVE  RequestTypeOK'
  BY <1>13 DEF ReleasePacket, Release, workerVars
<1>14. ASSUME InitQueueOK
      PROVE  RequestTypeOK'
  BY <1>14 DEF InitQueueOK, InitPool, MainTo, workerVars
<1>15. ASSUME InitQueueFails
      PROVE  RequestTypeOK'
  BY <1>15 DEF InitQueueFails, Uninit, MainTo, workerVars
<1>16. ASSUME StartThreads
      PROVE  RequestTypeOK'
  BY <1>16 DEF StartThreads, MainTo, queueVars, workerVars
<1>17. ASSUME StartNetService
      PROVE  RequestTypeOK'
  BY <1>17 DEF StartNetService, MainTo, queueVars, workerVars
<1>18. ASSUME CallStop
      PROVE  RequestTypeOK'
  BY <1>18 DEF CallStop, MainTo, queueVars, workerVars
<1>19. ASSUME SetStop
      PROVE  RequestTypeOK'
  BY <1>19 DEF SetStop, MainTo, queueVars, workerVars
<1>20. ASSUME StopNetService
      PROVE  RequestTypeOK'
  BY <1>20 DEF StopNetService, MainTo, queueVars, workerVars
<1>21. ASSUME NEW r \in Readers, JoinThread(r)
      PROVE  RequestTypeOK'
  BY <1>21 DEF JoinThread, MainTo, queueVars, workerVars
<1>22. ASSUME StopReturns
      PROVE  RequestTypeOK'
  BY <1>22 DEF StopReturns, MainTo, queueVars, workerVars
<1>23. ASSUME Destroy
      PROVE  RequestTypeOK'
  BY <1>23 DEF Destroy, Uninit, MainTo, workerVars
<1>24. ASSUME UNCHANGED vars
      PROVE  RequestTypeOK'
  BY <1>24 DEF vars, queueVars, workerVars, readerVars
<1>25. QED
  BY <1>1, <1>2, <1>3, <1>4, <1>5, <1>6, <1>7, <1>8, <1>9, <1>10, <1>11, <1>12, <1>13,
     <1>14, <1>15, <1>16, <1>17, <1>18, <1>19, <1>20, <1>21, <1>22, <1>23, <1>24, AllocCases
  DEF Next, WorkerStep, ReaderStep, MainStep

LEMMA Types == TypeOK /\ HandInv /\ [Next]_vars => TypeOK'
BY QueueTypes, ControlTypes, ThreadTypes, RequestTypes DEF TypeOK

LEMMA HandStep == TypeOK /\ HandInv /\ StartInv /\ [Next]_vars => HandInv'
<1> SUFFICES ASSUME TypeOK, HandInv, StartInv, [Next]_vars PROVE HandInv'
  OBVIOUS
<1> USE PoolAssumption, HttpAssumption DEF TypeOK, ThreadTypeOK, HandInv
<1>1. ASSUME NEW w \in Workers, NEW q \in Requests, Receive(w, q)
      PROVE  HandInv'
  BY <1>1 DEF Receive, readerVars
<1>2. ASSUME NEW w \in Workers, wpc[w] = "alloc", RefuseRequest(w)
      PROVE  HandInv'
  BY <1>2 DEF RefuseRequest, readerVars
<1>3. ASSUME NEW w \in Workers, NEW b \in m_freeList, AllocInto(w, b)
      PROVE  HandInv'
  <2>1. b # NoBuffer
    BY DEF QueueTypeOK
  <2>2. QED BY <1>3, <2>1 DEF AllocInto, readerVars
<1>4. ASSUME NEW w \in Workers, WriteBoth(w)
      PROVE  HandInv'
  BY <1>4 DEF WriteBoth, readerVars
<1>5. ASSUME NEW w \in Workers, PushPacket(w)
      PROVE  HandInv'
  BY <1>5 DEF PushPacket, readerVars
<1>6. ASSUME NEW r \in Readers, LoopTest(r)
      PROVE  HandInv'
  BY <1>6 DEF LoopTest, workerVars
<1>7. ASSUME NEW r \in Readers, WaitToken(r)
      PROVE  HandInv'
  BY <1>7 DEF WaitToken, workerVars
<1>8. ASSUME NEW r \in Readers, WaitTimeout(r)
      PROVE  HandInv'
  BY <1>8 DEF WaitTimeout, workerVars
<1>9. ASSUME NEW r \in Readers, LockToPop(r)
      PROVE  HandInv'
  BY <1>9 DEF LockToPop, workerVars
<1>10. ASSUME NEW r \in Readers, Pop(r)
      PROVE  HandInv'
  <2>1. m_queue # <<>> => Head(m_queue) # NoBuffer
    BY HeadTailProperties DEF QueueTypeOK
  <2>2. QED BY <1>10, <2>1 DEF Pop, PopLocked, workerVars
<1>11. ASSUME NEW r \in Readers, Handle(r)
      PROVE  HandInv'
  BY <1>11 DEF Handle, workerVars
<1>12. ASSUME NEW r \in Readers, LockToRelease(r)
      PROVE  HandInv'
  BY <1>12 DEF LockToRelease, workerVars
<1>13. ASSUME NEW r \in Readers, ReleasePacket(r)
      PROVE  HandInv'
  BY <1>13 DEF ReleasePacket, workerVars
<1>14. ASSUME InitQueueOK
      PROVE  HandInv'
  BY <1>14 DEF InitQueueOK, MainTo, workerVars
<1>15. ASSUME InitQueueFails
      PROVE  HandInv'
  BY <1>15 DEF InitQueueFails, MainTo, workerVars
<1>16. ASSUME StartThreads
      PROVE  HandInv'
  <2>1. \A r \in Readers : rbuf[r] = NoBuffer
    BY <1>16 DEF StartThreads, StartInv
  <2>2. QED BY <1>16, <2>1 DEF StartThreads, MainTo, workerVars
<1>17. ASSUME StartNetService
      PROVE  HandInv'
  BY <1>17 DEF StartNetService, MainTo, workerVars
<1>18. ASSUME CallStop
      PROVE  HandInv'
  BY <1>18 DEF CallStop, MainTo, workerVars
<1>19. ASSUME SetStop
      PROVE  HandInv'
  BY <1>19 DEF SetStop, MainTo, workerVars
<1>20. ASSUME StopNetService
      PROVE  HandInv'
  BY <1>20 DEF StopNetService, MainTo, workerVars
<1>21. ASSUME NEW r \in Readers, JoinThread(r)
      PROVE  HandInv'
  BY <1>21 DEF JoinThread, MainTo, workerVars
<1>22. ASSUME StopReturns
      PROVE  HandInv'
  BY <1>22 DEF StopReturns, MainTo, workerVars
<1>23. ASSUME Destroy
      PROVE  HandInv'
  BY <1>23 DEF Destroy, MainTo, workerVars
<1>24. ASSUME UNCHANGED vars
      PROVE  HandInv'
  BY <1>24 DEF vars, workerVars, readerVars
<1>25. QED
  BY <1>1, <1>2, <1>3, <1>4, <1>5, <1>6, <1>7, <1>8, <1>9, <1>10, <1>11, <1>12, <1>13,
     <1>14, <1>15, <1>16, <1>17, <1>18, <1>19, <1>20, <1>21, <1>22, <1>23, <1>24, AllocCases
  DEF Next, WorkerStep, ReaderStep, MainStep

LEMMA StartStep == TypeOK /\ HandInv /\ StartInv /\ [Next]_vars => StartInv'
<1> SUFFICES ASSUME TypeOK, HandInv, StartInv, [Next]_vars PROVE StartInv'
  OBVIOUS
<1> USE DEF TypeOK, QueueTypeOK, ControlTypeOK, ThreadTypeOK, StartInv
<1>1. ASSUME NEW w \in Workers, NEW q \in Requests, Receive(w, q)
      PROVE  StartInv'
  BY <1>1 DEF Receive, queueVars, controlVars, readerVars
<1>2. ASSUME NEW w \in Workers, wpc[w] = "alloc", RefuseRequest(w)
      PROVE  StartInv'
  BY <1>2 DEF RefuseRequest, queueVars, controlVars, readerVars
<1>3. ASSUME NEW w \in Workers, NEW b \in m_freeList, AllocInto(w, b)
      PROVE  StartInv'
  BY <1>3 DEF AllocInto, AllocWritePacket, CanAlloc, controlVars, readerVars
<1>4. ASSUME NEW w \in Workers, WriteBoth(w)
      PROVE  StartInv'
  BY <1>4 DEF WriteBoth, controlVars, readerVars
<1>5. ASSUME NEW w \in Workers, PushPacket(w)
      PROVE  StartInv'
  BY <1>5 DEF PushPacket, Push, HandInv, controlVars, readerVars
<1>6. ASSUME NEW r \in Readers, LoopTest(r)
      PROVE  StartInv'
  BY <1>6 DEF LoopTest, queueVars, controlVars, workerVars
<1>7. ASSUME NEW r \in Readers, WaitToken(r)
      PROVE  StartInv'
  BY <1>7 DEF WaitToken, SemWait, controlVars, workerVars
<1>8. ASSUME NEW r \in Readers, WaitTimeout(r)
      PROVE  StartInv'
  BY <1>8 DEF WaitTimeout, queueVars, controlVars, workerVars
<1>9. ASSUME NEW r \in Readers, LockToPop(r)
      PROVE  StartInv'
  BY <1>9 DEF LockToPop, EnterLock, controlVars, workerVars
<1>10. ASSUME NEW r \in Readers, Pop(r)
      PROVE  StartInv'
  BY <1>10 DEF Pop, PopLocked, controlVars, workerVars
<1>11. ASSUME NEW r \in Readers, Handle(r)
      PROVE  StartInv'
  BY <1>11 DEF Handle, queueVars, controlVars, workerVars
<1>12. ASSUME NEW r \in Readers, LockToRelease(r)
      PROVE  StartInv'
  BY <1>12 DEF LockToRelease, EnterLock, controlVars, workerVars
<1>13. ASSUME NEW r \in Readers, ReleasePacket(r)
      PROVE  StartInv'
  BY <1>13 DEF ReleasePacket, Release, controlVars, workerVars
<1>14. ASSUME InitQueueOK
      PROVE  StartInv'
  BY <1>14 DEF InitQueueOK, InitPool, MainTo, workerVars
<1>15. ASSUME InitQueueFails
      PROVE  StartInv'
  BY <1>15 DEF InitQueueFails, Uninit, MainTo, workerVars
<1>16. ASSUME StartThreads
      PROVE  StartInv'
  BY <1>16 DEF StartThreads, MainTo, queueVars, workerVars
<1>17. ASSUME StartNetService
      PROVE  StartInv'
  BY <1>17 DEF StartNetService, MainTo, queueVars, workerVars
<1>18. ASSUME CallStop
      PROVE  StartInv'
  BY <1>18 DEF CallStop, MainTo, queueVars, workerVars
<1>19. ASSUME SetStop
      PROVE  StartInv'
  BY <1>19 DEF SetStop, MainTo, queueVars, workerVars
<1>20. ASSUME StopNetService
      PROVE  StartInv'
  BY <1>20 DEF StopNetService, MainTo, queueVars, workerVars
<1>21. ASSUME NEW r \in Readers, JoinThread(r)
      PROVE  StartInv'
  BY <1>21 DEF JoinThread, MainTo, queueVars, workerVars
<1>22. ASSUME StopReturns
      PROVE  StartInv'
  BY <1>22 DEF StopReturns, MainTo, queueVars, workerVars
<1>23. ASSUME Destroy
      PROVE  StartInv'
  BY <1>23 DEF Destroy, Uninit, MainTo, workerVars
<1>24. ASSUME UNCHANGED vars
      PROVE  StartInv'
  BY <1>24 DEF vars, queueVars, controlVars, workerVars, readerVars
<1>25. QED
  BY <1>1, <1>2, <1>3, <1>4, <1>5, <1>6, <1>7, <1>8, <1>9, <1>10, <1>11, <1>12, <1>13,
     <1>14, <1>15, <1>16, <1>17, <1>18, <1>19, <1>20, <1>21, <1>22, <1>23, <1>24, AllocCases
  DEF Next, WorkerStep, ReaderStep, MainStep

\* The invariant every theorem below rests on.
QueueInv == TypeOK /\ HandInv /\ StartInv

LEMMA QueueInvInit == Init => QueueInv
<1> SUFFICES ASSUME Init PROVE QueueInv
  OBVIOUS
<1> USE PoolAssumption, HttpAssumption DEF Init, InitQueue
<1>1. QueueTypeOK /\ ControlTypeOK
  <2>1. m_queue \in Seq(Buffers)
    BY EmptySeq
  <2>2. QueueTypeOK
    BY <2>1 DEF QueueTypeOK
  <2>3. ControlTypeOK
    BY DEF ControlTypeOK
  <2>4. QED BY <2>2, <2>3
<1>2. ThreadTypeOK
  BY DEF ThreadTypeOK
<1>3. RequestTypeOK
  BY DEF RequestTypeOK
<1>4. HandInv /\ StartInv
  BY DEF HandInv, StartInv
<1>5. QED BY <1>1, <1>2, <1>3, <1>4 DEF QueueInv, TypeOK

LEMMA QueueInvStep == QueueInv /\ [Next]_vars => QueueInv'
BY Types, HandStep, StartStep DEF QueueInv

\* Every variable of the service keeps its type, whichever threads Stop terminates.
THEOREM TypeCorrect == Spec => []TypeOK
<1>1. QueueInv => TypeOK
  BY DEF QueueInv
<1>2. QED BY QueueInvInit, QueueInvStep, <1>1, PTL DEF Spec

LEMMA QueueInvariant == Spec => []QueueInv
BY QueueInvInit, QueueInvStep, PTL DEF Spec

-----------------------------------------------------------------------------
(* PoolConserved.  Said buffer by buffer and index by index, it is inductive: *)
(* no two of the places a buffer can be in hold the same one, and one does.   *)

Slots == 1..Len(m_queue)
Somewhere ==
    \A b \in Buffers : \/ b \in m_freeList
                       \/ \E i \in Slots : m_queue[i] = b
                       \/ \E w \in Workers : wbuf[w] = b
                       \/ \E r \in Readers : rbuf[r] = b
FreeApart ==
    /\ \A i \in Slots : m_queue[i] \notin m_freeList
    /\ \A w \in Workers : wbuf[w] \notin m_freeList
    /\ \A r \in Readers : rbuf[r] \notin m_freeList
QueueApart ==
    /\ \A i, j \in Slots : m_queue[i] = m_queue[j] => i = j
    /\ \A i \in Slots, w \in Workers : m_queue[i] # wbuf[w]
    /\ \A i \in Slots, r \in Readers : m_queue[i] # rbuf[r]
HandsApart ==
    /\ \A v, w \in Workers : wbuf[v] = wbuf[w] /\ wbuf[v] # NoBuffer => v = w
    /\ \A r, s \in Readers : rbuf[r] = rbuf[s] /\ rbuf[r] # NoBuffer => r = s
    /\ \A w \in Workers, r \in Readers : wbuf[w] = rbuf[r] => wbuf[w] = NoBuffer
FreeCounted == m_freeCount = Cardinality(m_freeList)
OwnInv ==
    /\ QueueApart /\ HandsApart
    /\ m_pool = "live" => Somewhere /\ FreeApart /\ FreeCounted

LEMMA OwnInvInit == Init => OwnInv
BY DEF Init, InitQueue, OwnInv, QueueApart, HandsApart, Slots

LEMMA OwnInvStep == QueueInv /\ OwnInv /\ [Next]_vars => OwnInv'
<1> SUFFICES ASSUME QueueInv, OwnInv, [Next]_vars PROVE OwnInv'
  OBVIOUS
<1> USE PoolAssumption, HttpAssumption DEF OwnInv
<1>0. QueueTypeOK /\ ThreadTypeOK /\ HandInv /\ StartInv /\ IsFiniteSet(m_freeList)
  BY FS_Subset DEF QueueInv, TypeOK, QueueTypeOK
<1>1. ASSUME NEW w \in Workers, NEW q \in Requests, Receive(w, q)
      PROVE  OwnInv'
  BY <1>1
  DEF Receive, Somewhere, FreeApart, QueueApart, HandsApart, FreeCounted, Slots, queueVars,
      readerVars
<1>2. ASSUME NEW w \in Workers, wpc[w] = "alloc", RefuseRequest(w)
      PROVE  OwnInv'
  BY <1>2
  DEF RefuseRequest, Somewhere, FreeApart, QueueApart, HandsApart, FreeCounted, Slots,
      queueVars, readerVars
<1>3. ASSUME NEW w \in Workers, NEW b \in m_freeList, AllocInto(w, b)
      PROVE  OwnInv'
  <2>1. /\ m_pool = "live" /\ m_pool' = "live"
        /\ m_queue' = m_queue /\ rbuf' = rbuf
        /\ m_freeList' = m_freeList \ {b} /\ m_freeCount' = m_freeCount - 1
        /\ wbuf' = [wbuf EXCEPT ![w] = b] /\ wbuf[w] = NoBuffer
    BY <1>0, <1>3 DEF AllocInto, AllocWritePacket, CanAlloc, readerVars, HandInv
  <2>2. b \in Buffers /\ m_freeList \subseteq Buffers
    BY <1>0 DEF QueueTypeOK
  <2>3. wbuf'[w] = b /\ \A v \in Workers : v # w => wbuf'[v] = wbuf[v]
    BY <1>0, <2>1 DEF ThreadTypeOK
  <2>4. Somewhere'
    BY <2>1, <2>2, <2>3 DEF Somewhere, Slots
  <2>5. FreeApart'
    BY <2>1, <2>2, <2>3 DEF FreeApart, Slots
  <2>6. QueueApart'
    BY <2>1, <2>2, <2>3 DEF QueueApart, FreeApart, Slots
  <2>7. HandsApart'
    BY <2>1, <2>2, <2>3 DEF HandsApart, FreeApart
  <2>8. FreeCounted'
    <3>1. Cardinality(m_freeList \ {b}) = Cardinality(m_freeList) - 1
      BY <1>0, FS_RemoveElement
    <3>2. QED BY <2>1, <3>1 DEF FreeCounted
  <2>9. QED BY <2>4, <2>5, <2>6, <2>7, <2>8
<1>4. ASSUME NEW w \in Workers, WriteBoth(w)
      PROVE  OwnInv'
  BY <1>4
  DEF WriteBoth, Somewhere, FreeApart, QueueApart, HandsApart, FreeCounted, Slots,
      readerVars
<1>5. ASSUME NEW w \in Workers, PushPacket(w)
      PROVE  OwnInv'
  <2>0. m_queue' = Append(m_queue, wbuf[w])
    BY <1>5 DEF PushPacket, Push
  <2>1. /\ m_pool' = m_pool /\ m_freeList' = m_freeList /\ m_freeCount' = m_freeCount
        /\ rbuf' = rbuf
        /\ wbuf' = [wbuf EXCEPT ![w] = NoBuffer] /\ wbuf[w] # NoBuffer
    BY <1>0, <1>5 DEF PushPacket, Push, readerVars, HandInv
  <2>2. m_queue \in Seq(Buffers) /\ wbuf[w] \in Buffers /\ m_freeList \subseteq Buffers
    BY <1>0, <2>1 DEF QueueTypeOK, ThreadTypeOK
  <2>3. wbuf'[w] = NoBuffer /\ \A v \in Workers : v # w => wbuf'[v] = wbuf[v]
    BY <1>0, <2>1 DEF ThreadTypeOK
  <2> DEFINE n == Len(m_queue)
  <2>4. /\ n \in Nat /\ Len(m_queue') = n + 1 /\ m_queue'[n + 1] = wbuf[w]
        /\ \A i \in 1..n : m_queue'[i] = m_queue[i]
    BY <2>0, <2>2
  <2>5. \A i \in 1..n : m_queue[i] \in Buffers
    BY <2>2
  <2> HIDE DEF n
  <2>6. Slots' = Slots \union {n + 1} /\ n + 1 \notin Slots
    BY <2>4 DEF Slots, n
  <2>7. \A i \in Slots : m_queue'[i] = m_queue[i] /\ m_queue[i] \in Buffers
    BY <2>4, <2>5 DEF Slots, n
  <2>8. m_pool = "live" => Somewhere'
    BY <2>1, <2>2, <2>3, <2>4, <2>6, <2>7 DEF Somewhere
  <2>9. m_pool = "live" => FreeApart'
    BY <2>1, <2>2, <2>3, <2>4, <2>6, <2>7 DEF FreeApart
  <2>10. QueueApart'
    BY <2>1, <2>2, <2>3, <2>4, <2>6, <2>7 DEF QueueApart, HandsApart
  <2>11. HandsApart' /\ (m_pool = "live" => FreeCounted')
    BY <2>1, <2>2, <2>3 DEF HandsApart, FreeCounted
  <2>12. QED BY <2>1, <2>8, <2>9, <2>10, <2>11
<1>6. ASSUME NEW r \in Readers, LoopTest(r)
      PROVE  OwnInv'
  BY <1>6
  DEF LoopTest, Somewhere, FreeApart, QueueApart, HandsApart, FreeCounted, Slots, queueVars,
      workerVars
<1>7. ASSUME NEW r \in Readers, WaitToken(r)
      PROVE  OwnInv'
  BY <1>7
  DEF WaitToken, SemWait, Somewhere, FreeApart, QueueApart, HandsApart, FreeCounted, Slots,
      workerVars
<1>8. ASSUME NEW r \in Readers, WaitTimeout(r)
      PROVE  OwnInv'
  BY <1>8
  DEF WaitTimeout, Somewhere, FreeApart, QueueApart, HandsApart, FreeCounted, Slots,
      queueVars, workerVars
<1>9. ASSUME NEW r \in Readers, LockToPop(r)
      PROVE  OwnInv'
  BY <1>9
  DEF LockToPop, EnterLock, Somewhere, FreeApart, QueueApart, HandsApart, FreeCounted,
      Slots, workerVars
<1>10. ASSUME NEW r \in Readers, Pop(r)
      PROVE  OwnInv'
  <2>0. CASE m_queue = <<>>
    BY <1>0, <1>10, <2>0
    DEF Pop, PopLocked, workerVars, HandInv, ThreadTypeOK, Somewhere, FreeApart, QueueApart,
        HandsApart, FreeCounted, Slots
  <2>1. CASE m_queue # <<>>
    <3>0. m_queue' = Tail(m_queue)
      BY <1>10, <2>1 DEF Pop, PopLocked
    <3>1. /\ m_pool' = m_pool /\ m_freeList' = m_freeList /\ m_freeCount' = m_freeCount
          /\ wbuf' = wbuf
          /\ rbuf' = [rbuf EXCEPT ![r] = Head(m_queue)] /\ rbuf[r] = NoBuffer
      BY <1>0, <1>10, <2>1 DEF Pop, PopLocked, workerVars, HandInv
    <3>2. m_queue \in Seq(Buffers)
      BY <1>0 DEF QueueTypeOK
    <3>3. rbuf'[r] = Head(m_queue) /\ \A s \in Readers : s # r => rbuf'[s] = rbuf[s]
      BY <1>0, <3>1 DEF ThreadTypeOK
    <3>4. /\ 1 \in Slots /\ m_queue[1] = Head(m_queue)
          /\ Head(m_queue) \in Buffers
      BY <2>1, <3>2 DEF Slots
    <3>5. \A i \in Slots' : /\ i + 1 \in Slots /\ i + 1 # 1 /\ i \in Int
                           /\ m_queue'[i] = m_queue[i + 1]
      BY <2>1, <3>0, <3>2, HeadTailProperties DEF Slots
    <3>6. \A i \in Slots : i # 1 => i - 1 \in Slots' /\ m_queue'[i - 1] = m_queue[i]
      BY <2>1, <3>0, <3>2, HeadTailProperties DEF Slots
    <3>7. m_pool = "live" => Somewhere'
      <4> SUFFICES ASSUME m_pool = "live", NEW b \in Buffers, b \notin m_freeList',
                          \A v \in Workers : wbuf'[v] # b, \A s \in Readers : rbuf'[s] # b
                   PROVE  \E i \in Slots' : m_queue'[i] = b
        BY DEF Somewhere
      <4>1. \A v \in Workers : wbuf[v] # b
        BY <3>1
      <4>2. \A s \in Readers : rbuf[s] # b
        BY <3>1, <3>3
      <4>3. PICK i \in Slots : m_queue[i] = b
        BY <3>1, <4>1, <4>2 DEF Somewhere
      <4>4. i # 1
        BY <3>3, <3>4, <4>3
      <4>5. QED BY <3>6, <4>3, <4>4
    <3>8. m_pool = "live" => FreeApart'
      BY <3>1, <3>3, <3>4, <3>5 DEF FreeApart
    <3>9. QueueApart'
      BY <3>1, <3>3, <3>4, <3>5 DEF QueueApart
    <3>10. HandsApart' /\ (m_pool = "live" => FreeCounted')
      BY <3>1, <3>3, <3>4 DEF HandsApart, QueueApart, FreeCounted
    <3>11. QED BY <3>1, <3>7, <3>8, <3>9, <3>10
  <2>2. QED BY <2>0, <2>1
<1>11. ASSUME NEW r \in Readers, Handle(r)
      PROVE  OwnInv'
  BY <1>11
  DEF Handle, Somewhere, FreeApart, QueueApart, HandsApart, FreeCounted, Slots, queueVars,
      workerVars
<1>12. ASSUME NEW r \in Readers, LockToRelease(r)
      PROVE  OwnInv'
  BY <1>12
  DEF LockToRelease, EnterLock, Somewhere, FreeApart, QueueApart, HandsApart, FreeCounted,
      Slots, workerVars
<1>13. ASSUME NEW r \in Readers, ReleasePacket(r)
      PROVE  OwnInv'
  <2>1. /\ m_pool' = m_pool /\ m_queue' = m_queue /\ wbuf' = wbuf
        /\ rbuf' = [rbuf EXCEPT ![r] = NoBuffer] /\ rbuf[r] # NoBuffer
    BY <1>0, <1>13 DEF ReleasePacket, Release, workerVars, HandInv
  <2>2. m_pool = "live" =>
           m_freeList' = m_freeList \union {rbuf[r]} /\ m_freeCount' = m_freeCount + 1
    BY <1>13 DEF ReleasePacket, Release
  <2>3. rbuf'[r] = NoBuffer /\ \A s \in Readers : s # r => rbuf'[s] = rbuf[s]
    BY <1>0, <2>1 DEF ThreadTypeOK
  <2>4. /\ m_freeList \subseteq Buffers /\ rbuf[r] \in Buffers
        /\ \A i \in Slots : m_queue[i] \in Buffers
    BY <1>0, <2>1 DEF QueueTypeOK, ThreadTypeOK, Slots
  <2>5. m_pool = "live" => Somewhere'
    BY <2>1, <2>2, <2>3 DEF Somewhere, Slots
  <2>6. m_pool = "live" => FreeApart'
    BY <2>1, <2>2, <2>3, <2>4 DEF FreeApart, QueueApart, HandsApart, Slots
  <2>7. QueueApart'
    BY <2>1, <2>3, <2>4 DEF QueueApart, Slots
  <2>8. HandsApart'
    BY <2>1, <2>3 DEF HandsApart
  <2>9. m_pool = "live" => FreeCounted'
    <3> SUFFICES ASSUME m_pool = "live" PROVE FreeCounted'
      OBVIOUS
    <3>1. rbuf[r] \notin m_freeList
      BY DEF FreeApart
    <3>2. Cardinality(m_freeList \union {rbuf[r]}) = Cardinality(m_freeList) + 1
      BY <1>0, <3>1, FS_AddElement
    <3>3. QED BY <2>2, <3>2 DEF FreeCounted
  <2>10. QED BY <2>1, <2>5, <2>6, <2>7, <2>8, <2>9
<1>14. ASSUME InitQueueOK
      PROVE  OwnInv'
  <2>1. /\ m_pool = "none" /\ m_queue' = m_queue /\ wbuf' = wbuf /\ rbuf' = rbuf
        /\ m_freeList' = Buffers /\ m_freeCount' = Cardinality(Buffers)
    BY <1>14 DEF InitQueueOK, InitPool, MainTo, workerVars
  <2>2. /\ m_queue = <<>>
        /\ \A w \in Workers : wbuf[w] = NoBuffer
        /\ \A r \in Readers : rbuf[r] = NoBuffer
    BY <1>0, <2>1 DEF StartInv
  <2>3. QED BY <2>1, <2>2 DEF Somewhere, FreeApart, QueueApart, HandsApart, FreeCounted, Slots
<1>15. ASSUME InitQueueFails
      PROVE  OwnInv'
  BY <1>15
  DEF InitQueueFails, Uninit, MainTo, Somewhere, FreeApart, QueueApart, HandsApart,
      FreeCounted, Slots, workerVars
<1>16. ASSUME StartThreads
      PROVE  OwnInv'
  BY <1>16
  DEF StartThreads, MainTo, Somewhere, FreeApart, QueueApart, HandsApart, FreeCounted,
      Slots, queueVars, workerVars
<1>17. ASSUME StartNetService
      PROVE  OwnInv'
  BY <1>17
  DEF StartNetService, MainTo, Somewhere, FreeApart, QueueApart, HandsApart, FreeCounted,
      Slots, queueVars, workerVars
<1>18. ASSUME CallStop
      PROVE  OwnInv'
  BY <1>18
  DEF CallStop, MainTo, Somewhere, FreeApart, QueueApart, HandsApart, FreeCounted, Slots,
      queueVars, workerVars
<1>19. ASSUME SetStop
      PROVE  OwnInv'
  BY <1>19
  DEF SetStop, MainTo, Somewhere, FreeApart, QueueApart, HandsApart, FreeCounted, Slots,
      queueVars, workerVars
<1>20. ASSUME StopNetService
      PROVE  OwnInv'
  BY <1>20
  DEF StopNetService, MainTo, Somewhere, FreeApart, QueueApart, HandsApart, FreeCounted,
      Slots, queueVars, workerVars
<1>21. ASSUME NEW r \in Readers, JoinThread(r)
      PROVE  OwnInv'
  BY <1>21
  DEF JoinThread, MainTo, Somewhere, FreeApart, QueueApart, HandsApart, FreeCounted, Slots,
      queueVars, workerVars
<1>22. ASSUME StopReturns
      PROVE  OwnInv'
  BY <1>22
  DEF StopReturns, MainTo, Somewhere, FreeApart, QueueApart, HandsApart, FreeCounted, Slots,
      queueVars, workerVars
<1>23. ASSUME Destroy
      PROVE  OwnInv'
  BY <1>23
  DEF Destroy, Uninit, MainTo, Somewhere, FreeApart, QueueApart, HandsApart, FreeCounted,
      Slots, workerVars
<1>24. ASSUME UNCHANGED vars
      PROVE  OwnInv'
  BY <1>24
  DEF vars, Somewhere, FreeApart, QueueApart, HandsApart, FreeCounted, Slots, queueVars,
      workerVars, readerVars
<1>25. QED
  BY <1>1, <1>2, <1>3, <1>4, <1>5, <1>6, <1>7, <1>8, <1>9, <1>10, <1>11, <1>12, <1>13,
     <1>14, <1>15, <1>16, <1>17, <1>18, <1>19, <1>20, <1>21, <1>22, <1>23, <1>24, AllocCases
  DEF Next, WorkerStep, ReaderStep, MainStep

\* What the runs check follows: HeldBy joins the two kinds of hands.
LEMMA OwnInvConserves == QueueInv /\ OwnInv => PoolConserved
<1> SUFFICES ASSUME QueueInv, OwnInv, m_pool = "live"
             PROVE  /\ m_freeList \union ToSet(m_queue) \union Held = Buffers
                    /\ m_freeList \intersect (ToSet(m_queue) \union Held) = {}
                    /\ ToSet(m_queue) \intersect Held = {}
                    /\ IsInjective(m_queue)
                    /\ \A t, u \in InHand : HeldBy(t) = HeldBy(u) => t = u
                    /\ m_freeCount = Cardinality(m_freeList)
  BY DEF PoolConserved
<1> USE PoolAssumption, HttpAssumption
<1>1. /\ Somewhere /\ FreeApart /\ QueueApart /\ HandsApart /\ FreeCounted
      /\ QueueTypeOK /\ ThreadTypeOK
  BY DEF OwnInv, QueueInv, TypeOK
<1>2. \A b : b \in ToSet(m_queue) <=> \E i \in Slots : m_queue[i] = b
  <2>1. DOMAIN m_queue = 1..Len(m_queue)
    BY <1>1 DEF QueueTypeOK
  <2>2. QED BY <2>1 DEF ToSet, Slots
<1>3. \A b : b \in Held <=> \/ \E w \in Workers : wbuf[w] = b /\ b # NoBuffer
                           \/ \E r \in Readers : rbuf[r] = b /\ b # NoBuffer
  BY DEF Held, InHand, HeldBy
<1>4. m_freeList \subseteq Buffers /\ Held \subseteq Buffers /\ ToSet(m_queue) \subseteq Buffers
  BY <1>1, <1>2, <1>3 DEF QueueTypeOK, ThreadTypeOK, Slots
<1>5. \A b \in Buffers : b \in m_freeList \/ b \in ToSet(m_queue) \/ b \in Held
  BY <1>1, <1>2, <1>3 DEF Somewhere
<1>6. \A b \in m_freeList : b \notin ToSet(m_queue) /\ b \notin Held
  BY <1>1, <1>2, <1>3 DEF FreeApart
<1>7. \A b \in ToSet(m_queue) : b \notin Held
  BY <1>1, <1>2, <1>3 DEF QueueApart
<1>8. IsInjective(m_queue)
  <2>1. DOMAIN m_queue = 1..Len(m_queue)
    BY <1>1 DEF QueueTypeOK
  <2>2. QED BY <1>1, <2>1 DEF IsInjective, QueueApart, Slots
<1>9. \A t, u \in InHand : HeldBy(t) = HeldBy(u) => t = u
  BY <1>1 DEF InHand, HeldBy, HandsApart
<1>10. QED BY <1>1, <1>4, <1>5, <1>6, <1>7, <1>8, <1>9 DEF FreeCounted

\* FixedMemoryPool and PackageQueue: while the pool is live every buffer is free, queued
\* or in one hand, however many requests, workers and terminated threads there are.
THEOREM PoolIsConserved == Spec => []PoolConserved
<1>1. Init => QueueInv /\ OwnInv
  BY QueueInvInit, OwnInvInit
<1>2. (QueueInv /\ OwnInv) /\ [Next]_vars => (QueueInv /\ OwnInv)'
  BY QueueInvStep, OwnInvStep
<1>3. QED BY <1>1, <1>2, OwnInvConserves, PTL DEF Spec

-----------------------------------------------------------------------------
(* TokensCoverQueue is inductive once the readers are known to be finite.     *)

Claimers == {r \in Readers : rpc[r] \in {"lock", "pop"}}
Lost == {r \in Readers : rpc[r] = "killed" /\ rbuf[r] = NoBuffer}

LEMMA Counts ==
    /\ IsFiniteSet(Claimers) /\ Cardinality(Claimers) \in Nat
    /\ IsFiniteSet(Lost) /\ Cardinality(Lost) \in Nat
<1>1. Claimers \subseteq Readers /\ Lost \subseteq Readers
  BY DEF Claimers, Lost
<1>2. QED BY <1>1, HttpAssumption, FS_Subset, FS_CardinalityType

TokenInv ==
    /\ m_sem + Cardinality(Claimers) <= Len(m_queue)
    /\ Len(m_queue) <= m_sem + Cardinality(Claimers) + Cardinality(Lost)

LEMMA TokenInvIs == TokenInv <=> TokensCoverQueue
BY DEF TokenInv, TokensCoverQueue, Claimers, Lost

LEMMA TokenInvInit == Init => TokenInv
<1> SUFFICES ASSUME Init PROVE TokenInv
  OBVIOUS
<1>1. Claimers = {} /\ Lost = {} /\ m_queue = <<>> /\ m_sem = 0
  BY DEF Init, InitQueue, Claimers, Lost
<1>2. QED BY <1>1, FS_EmptySet DEF TokenInv

LEMMA TokenInvStep == QueueInv /\ TokenInv /\ [Next]_vars => TokenInv'
<1> SUFFICES ASSUME QueueInv, TokenInv, [Next]_vars PROVE TokenInv'
  OBVIOUS
<1> USE HttpAssumption
<1>0. QueueTypeOK /\ ThreadTypeOK /\ HandInv /\ StartInv /\ m_queue \in Seq(Buffers)
  BY DEF QueueInv, TypeOK, QueueTypeOK
<1>same. ASSUME Claimers' = Claimers, Lost' = Lost, m_queue' = m_queue, m_sem' = m_sem
         PROVE  TokenInv'
  BY <1>same DEF TokenInv
<1>1. ASSUME NEW w \in Workers, NEW q \in Requests, Receive(w, q)
      PROVE  TokenInv'
  <2>1. Claimers' = Claimers /\ Lost' = Lost /\ m_queue' = m_queue /\ m_sem' = m_sem
    BY <1>0, <1>1 DEF Claimers, Lost, Receive, queueVars, readerVars
  <2>2. QED BY <2>1, <1>same
<1>2. ASSUME NEW w \in Workers, wpc[w] = "alloc", RefuseRequest(w)
      PROVE  TokenInv'
  <2>1. Claimers' = Claimers /\ Lost' = Lost /\ m_queue' = m_queue /\ m_sem' = m_sem
    BY <1>0, <1>2 DEF Claimers, Lost, RefuseRequest, queueVars, readerVars
  <2>2. QED BY <2>1, <1>same
<1>3. ASSUME NEW w \in Workers, NEW b \in m_freeList, AllocInto(w, b)
      PROVE  TokenInv'
  <2>1. Claimers' = Claimers /\ Lost' = Lost /\ m_queue' = m_queue /\ m_sem' = m_sem
    BY <1>0, <1>3 DEF Claimers, Lost, AllocInto, AllocWritePacket, readerVars
  <2>2. QED BY <2>1, <1>same
<1>4. ASSUME NEW w \in Workers, WriteBoth(w)
      PROVE  TokenInv'
  <2>1. Claimers' = Claimers /\ Lost' = Lost /\ m_queue' = m_queue /\ m_sem' = m_sem
    BY <1>0, <1>4 DEF Claimers, Lost, WriteBoth, readerVars
  <2>2. QED BY <2>1, <1>same
<1>5. ASSUME NEW w \in Workers, PushPacket(w)
      PROVE  TokenInv'
  <2>1. /\ Claimers' = Claimers /\ Lost' = Lost
        /\ m_queue' = Append(m_queue, wbuf[w]) /\ m_sem' = m_sem + 1
    BY <1>5 DEF Claimers, Lost, PushPacket, Push, readerVars
  <2>2. wbuf[w] \in Buffers
    BY <1>0, <1>5 DEF PushPacket, HandInv, ThreadTypeOK
  <2>3. Len(m_queue') = Len(m_queue) + 1 /\ Len(m_queue) \in Nat /\ m_sem \in Nat
    BY <1>0, <2>1, <2>2 DEF QueueTypeOK
  <2>4. QED BY <2>1, <2>3, Counts DEF TokenInv
<1>6. ASSUME NEW r \in Readers, LoopTest(r)
      PROVE  TokenInv'
  <2>1. Claimers' = Claimers /\ Lost' = Lost /\ m_queue' = m_queue /\ m_sem' = m_sem
    BY <1>0, <1>6 DEF Claimers, Lost, LoopTest, queueVars, ThreadTypeOK
  <2>2. QED BY <2>1, <1>same
<1>7. ASSUME NEW r \in Readers, WaitToken(r)
      PROVE  TokenInv'
  <2>1. /\ Claimers' = Claimers \union {r} /\ r \notin Claimers /\ Lost' = Lost
        /\ m_queue' = m_queue /\ m_sem' = m_sem - 1 /\ m_sem \in Nat
    BY <1>0, <1>7 DEF Claimers, Lost, WaitToken, SemWait, ThreadTypeOK, QueueTypeOK
  <2>2. Cardinality(Claimers') = Cardinality(Claimers) + 1
    BY <2>1, Counts, FS_AddElement
  <2>3. QED BY <1>0, <2>1, <2>2, Counts DEF TokenInv
<1>8. ASSUME NEW r \in Readers, WaitTimeout(r)
      PROVE  TokenInv'
  <2>1. Claimers' = Claimers /\ Lost' = Lost /\ m_queue' = m_queue /\ m_sem' = m_sem
    BY <1>0, <1>8 DEF Claimers, Lost, WaitTimeout, queueVars, ThreadTypeOK
  <2>2. QED BY <2>1, <1>same
<1>9. ASSUME NEW r \in Readers, LockToPop(r)
      PROVE  TokenInv'
  <2>1. Claimers' = Claimers /\ Lost' = Lost /\ m_queue' = m_queue /\ m_sem' = m_sem
    BY <1>0, <1>9 DEF Claimers, Lost, LockToPop, EnterLock, ThreadTypeOK
  <2>2. QED BY <2>1, <1>same
<1>10. ASSUME NEW r \in Readers, Pop(r)
      PROVE  TokenInv'
  <2>1. Claimers' = Claimers \ {r} /\ r \in Claimers /\ Lost' = Lost /\ m_sem' = m_sem
    BY <1>0, <1>10 DEF Claimers, Lost, Pop, PopLocked, ThreadTypeOK
  <2>2. Cardinality(Claimers') = Cardinality(Claimers) - 1 /\ Cardinality(Claimers) > 0
    <3>1. Claimers # {}
      BY <2>1
    <3>2. Cardinality(Claimers) # 0
      BY <3>1, Counts, FS_EmptySet
    <3>3. Cardinality(Claimers \ {r}) = Cardinality(Claimers) - 1
      BY <2>1, Counts, FS_RemoveElement
    <3>4. QED BY <2>1, <3>2, <3>3, Counts
  <2>3. Len(m_queue) \in Nat /\ m_sem \in Nat
    BY <1>0 DEF QueueTypeOK
  <2>4. m_queue # <<>>
    BY <2>2, <2>3, Counts DEF TokenInv
  <2>5. Len(m_queue') = Len(m_queue) - 1
    BY <1>0, <1>10, <2>4, HeadTailProperties DEF Pop, PopLocked
  <2>6. QED BY <2>1, <2>2, <2>3, <2>5, Counts DEF TokenInv
<1>11. ASSUME NEW r \in Readers, Handle(r)
      PROVE  TokenInv'
  <2>1. Claimers' = Claimers /\ Lost' = Lost /\ m_queue' = m_queue /\ m_sem' = m_sem
    BY <1>0, <1>11 DEF Claimers, Lost, Handle, queueVars, ThreadTypeOK
  <2>2. QED BY <2>1, <1>same
<1>12. ASSUME NEW r \in Readers, LockToRelease(r)
      PROVE  TokenInv'
  <2>1. Claimers' = Claimers /\ Lost' = Lost /\ m_queue' = m_queue /\ m_sem' = m_sem
    BY <1>0, <1>12 DEF Claimers, Lost, LockToRelease, EnterLock, ThreadTypeOK
  <2>2. QED BY <2>1, <1>same
<1>13. ASSUME NEW r \in Readers, ReleasePacket(r)
      PROVE  TokenInv'
  <2>1. Claimers' = Claimers /\ Lost' = Lost /\ m_queue' = m_queue /\ m_sem' = m_sem
    BY <1>0, <1>13 DEF Claimers, Lost, ReleasePacket, Release, ThreadTypeOK, HandInv
  <2>2. QED BY <2>1, <1>same
<1>14. ASSUME InitQueueOK
      PROVE  TokenInv'
  <2>1. Claimers' = Claimers /\ Lost' = Lost /\ m_queue' = m_queue /\ m_sem' = m_sem
    BY <1>0, <1>14 DEF Claimers, Lost, InitQueueOK, InitPool, StartInv
  <2>2. QED BY <2>1, <1>same
<1>15. ASSUME InitQueueFails
      PROVE  TokenInv'
  <2>1. Claimers' = Claimers /\ Lost' = Lost /\ m_queue' = m_queue /\ m_sem' = m_sem
    BY <1>0, <1>15 DEF Claimers, Lost, InitQueueFails, Uninit
  <2>2. QED BY <2>1, <1>same
<1>16. ASSUME StartThreads
      PROVE  TokenInv'
  <2>1. Claimers' = Claimers /\ Lost' = Lost /\ m_queue' = m_queue /\ m_sem' = m_sem
    <3>1. \A r \in Readers : rpc[r] = "none" /\ rpc'[r] \in {"none", "test"}
      BY <1>0, <1>16 DEF StartThreads, StartInv
    <3>2. QED BY <1>16, <3>1 DEF Claimers, Lost, StartThreads, queueVars
  <2>2. QED BY <2>1, <1>same
<1>17. ASSUME StartNetService
      PROVE  TokenInv'
  <2>1. Claimers' = Claimers /\ Lost' = Lost /\ m_queue' = m_queue /\ m_sem' = m_sem
    BY <1>0, <1>17 DEF Claimers, Lost, StartNetService, queueVars
  <2>2. QED BY <2>1, <1>same
<1>18. ASSUME CallStop
      PROVE  TokenInv'
  <2>1. Claimers' = Claimers /\ Lost' = Lost /\ m_queue' = m_queue /\ m_sem' = m_sem
    BY <1>0, <1>18 DEF Claimers, Lost, CallStop, queueVars
  <2>2. QED BY <2>1, <1>same
<1>19. ASSUME SetStop
      PROVE  TokenInv'
  <2>1. Claimers' = Claimers /\ Lost' = Lost /\ m_queue' = m_queue /\ m_sem' = m_sem
    BY <1>0, <1>19 DEF Claimers, Lost, SetStop, queueVars
  <2>2. QED BY <2>1, <1>same
<1>20. ASSUME StopNetService
      PROVE  TokenInv'
  <2>1. Claimers' = Claimers /\ Lost' = Lost /\ m_queue' = m_queue /\ m_sem' = m_sem
    BY <1>0, <1>20 DEF Claimers, Lost, StopNetService, queueVars
  <2>2. QED BY <2>1, <1>same
<1>21. ASSUME NEW r \in Readers, JoinThread(r)
      PROVE  TokenInv'
  <2>1. m_queue' = m_queue /\ m_sem' = m_sem /\ rbuf' = rbuf
    BY <1>21 DEF JoinThread, queueVars
  <2>2. CASE r \in Claimers
    <3>1. Claimers' = Claimers \ {r} /\ Lost' = Lost \union {r} /\ r \notin Lost
      BY <1>0, <1>21, <2>1, <2>2 DEF Claimers, Lost, JoinThread, Running, ThreadTypeOK, HandInv
    <3>2. /\ Cardinality(Claimers') = Cardinality(Claimers) - 1
          /\ Cardinality(Lost') = Cardinality(Lost) + 1
      BY <2>2, <3>1, Counts, FS_AddElement, FS_RemoveElement
    <3>3. Len(m_queue) \in Nat /\ m_sem \in Nat
      BY <1>0 DEF QueueTypeOK
    <3>4. QED BY <2>1, <3>2, <3>3, Counts DEF TokenInv
  <2>3. CASE r \notin Claimers
    <3>1. Claimers' = Claimers /\ (Lost' = Lost \/ Lost' = Lost \union {r})
      BY <1>0, <1>21, <2>1, <2>3 DEF Claimers, Lost, JoinThread, Running, ThreadTypeOK
    <3>2. Cardinality(Lost') \in Nat /\ Cardinality(Lost') >= Cardinality(Lost)
      <4>1. Cardinality(Lost \union {r}) \in {Cardinality(Lost), Cardinality(Lost) + 1}
        BY Counts, FS_AddElement
      <4>2. QED BY <3>1, <4>1, Counts
    <3>3. Len(m_queue) \in Nat /\ m_sem \in Nat
      BY <1>0 DEF QueueTypeOK
    <3>4. QED BY <2>1, <3>1, <3>2, <3>3, Counts DEF TokenInv
  <2>4. QED BY <2>2, <2>3
<1>22. ASSUME StopReturns
      PROVE  TokenInv'
  <2>1. Claimers' = Claimers /\ Lost' = Lost /\ m_queue' = m_queue /\ m_sem' = m_sem
    BY <1>0, <1>22 DEF Claimers, Lost, StopReturns, queueVars
  <2>2. QED BY <2>1, <1>same
<1>23. ASSUME Destroy
      PROVE  TokenInv'
  <2>1. Claimers' = Claimers /\ Lost' = Lost /\ m_queue' = m_queue /\ m_sem' = m_sem
    BY <1>0, <1>23 DEF Claimers, Lost, Destroy, Uninit
  <2>2. QED BY <2>1, <1>same
<1>24. ASSUME UNCHANGED vars
      PROVE  TokenInv'
  <2>1. Claimers' = Claimers /\ Lost' = Lost /\ m_queue' = m_queue /\ m_sem' = m_sem
    BY <1>0, <1>24 DEF Claimers, Lost, vars, queueVars, readerVars
  <2>2. QED BY <2>1, <1>same
<1>25. QED
  BY <1>1, <1>2, <1>3, <1>4, <1>5, <1>6, <1>7, <1>8, <1>9, <1>10, <1>11, <1>12, <1>13,
     <1>14, <1>15, <1>16, <1>17, <1>18, <1>19, <1>20, <1>21, <1>22, <1>23, <1>24, AllocCases
  DEF Next, WorkerStep, ReaderStep, MainStep

\* CSemaphore and the queue's lock: no packet is queued without a count for it, and no
\* reader finds the queue empty, for any number of readers killed while Stop joins them.
THEOREM TokensAlwaysCover == Spec => []TokensCoverQueue
<1>1. Init => QueueInv /\ TokenInv
  BY QueueInvInit, TokenInvInit
<1>2. (QueueInv /\ TokenInv) /\ [Next]_vars => (QueueInv /\ TokenInv)'
  BY QueueInvStep, TokenInvStep
<1>3. QED BY <1>1, <1>2, TokenInvIs, PTL DEF Spec

-----------------------------------------------------------------------------
(* NoBufferAfterFree, as long as StopNetService has not given up on a worker: *)
(* the order of Stop, first the network, then the threads, then the pool.     *)

LifeInv ==
    /\ \A r \in Readers : Running(r) => r \in mThreads
    /\ mainPC \in {"init", "threads", "destroy", "gone"} => mThreads = {}
    /\ mainPC \notin {"running", "stop", "stopNet"} => ~listening
    /\ mainPC \in {"init", "threads", "listen", "join", "destroy", "gone"} =>
          \A w \in Workers : wpc[w] = "idle"
    /\ m_pool = "freed" => mainPC = "gone"

LEMMA LifeInvInit == Init => LifeInv
BY DEF Init, InitQueue, LifeInv, Running

LEMMA LifeInvStep == ~LateWorkers /\ QueueInv /\ LifeInv /\ [Next]_vars => LifeInv'
<1> SUFFICES ASSUME ~LateWorkers, QueueInv, LifeInv, [Next]_vars PROVE LifeInv'
  OBVIOUS
<1> USE DEF LifeInv, Running
<1>0. ControlTypeOK /\ ThreadTypeOK /\ StartInv
  BY DEF QueueInv, TypeOK
<1>1. ASSUME NEW w \in Workers, NEW q \in Requests, Receive(w, q)
      PROVE  LifeInv'
  BY <1>0, <1>1
  DEF Receive, ControlTypeOK, ThreadTypeOK, StartInv, queueVars, controlVars, readerVars
<1>2. ASSUME NEW w \in Workers, wpc[w] = "alloc", RefuseRequest(w)
      PROVE  LifeInv'
  BY <1>0, <1>2
  DEF RefuseRequest, ControlTypeOK, ThreadTypeOK, StartInv, queueVars, controlVars,
      readerVars
<1>3. ASSUME NEW w \in Workers, NEW b \in m_freeList, AllocInto(w, b)
      PROVE  LifeInv'
  BY <1>0, <1>3
  DEF AllocInto, AllocWritePacket, ControlTypeOK, ThreadTypeOK, StartInv, controlVars,
      readerVars
<1>4. ASSUME NEW w \in Workers, WriteBoth(w)
      PROVE  LifeInv'
  BY <1>0, <1>4
  DEF WriteBoth, ControlTypeOK, ThreadTypeOK, StartInv, controlVars, readerVars
<1>5. ASSUME NEW w \in Workers, PushPacket(w)
      PROVE  LifeInv'
  BY <1>0, <1>5
  DEF PushPacket, Push, ControlTypeOK, ThreadTypeOK, StartInv, controlVars, readerVars
<1>6. ASSUME NEW r \in Readers, LoopTest(r)
      PROVE  LifeInv'
  BY <1>0, <1>6
  DEF LoopTest, ControlTypeOK, ThreadTypeOK, StartInv, queueVars, controlVars, workerVars
<1>7. ASSUME NEW r \in Readers, WaitToken(r)
      PROVE  LifeInv'
  BY <1>0, <1>7
  DEF WaitToken, SemWait, ControlTypeOK, ThreadTypeOK, StartInv, controlVars, workerVars
<1>8. ASSUME NEW r \in Readers, WaitTimeout(r)
      PROVE  LifeInv'
  BY <1>0, <1>8
  DEF WaitTimeout, ControlTypeOK, ThreadTypeOK, StartInv, queueVars, controlVars, workerVars
<1>9. ASSUME NEW r \in Readers, LockToPop(r)
      PROVE  LifeInv'
  BY <1>0, <1>9
  DEF LockToPop, EnterLock, ControlTypeOK, ThreadTypeOK, StartInv, controlVars, workerVars
<1>10. ASSUME NEW r \in Readers, Pop(r)
      PROVE  LifeInv'
  BY <1>0, <1>10
  DEF Pop, PopLocked, ControlTypeOK, ThreadTypeOK, StartInv, controlVars, workerVars
<1>11. ASSUME NEW r \in Readers, Handle(r)
      PROVE  LifeInv'
  BY <1>0, <1>11
  DEF Handle, ControlTypeOK, ThreadTypeOK, StartInv, queueVars, controlVars, workerVars
<1>12. ASSUME NEW r \in Readers, LockToRelease(r)
      PROVE  LifeInv'
  BY <1>0, <1>12
  DEF LockToRelease, EnterLock, ControlTypeOK, ThreadTypeOK, StartInv, controlVars,
      workerVars
<1>13. ASSUME NEW r \in Readers, ReleasePacket(r)
      PROVE  LifeInv'
  BY <1>0, <1>13
  DEF ReleasePacket, Release, ControlTypeOK, ThreadTypeOK, StartInv, controlVars, workerVars
<1>14. ASSUME InitQueueOK
      PROVE  LifeInv'
  BY <1>0, <1>14
  DEF InitQueueOK, InitPool, MainTo, ControlTypeOK, ThreadTypeOK, StartInv, workerVars
<1>15. ASSUME InitQueueFails
      PROVE  LifeInv'
  BY <1>0, <1>15
  DEF InitQueueFails, Uninit, MainTo, ControlTypeOK, ThreadTypeOK, StartInv, workerVars
<1>16. ASSUME StartThreads
      PROVE  LifeInv'
  BY <1>0, <1>16
  DEF StartThreads, MainTo, ControlTypeOK, ThreadTypeOK, StartInv, queueVars, workerVars
<1>17. ASSUME StartNetService
      PROVE  LifeInv'
  BY <1>0, <1>17
  DEF StartNetService, MainTo, ControlTypeOK, ThreadTypeOK, StartInv, queueVars, workerVars
<1>18. ASSUME CallStop
      PROVE  LifeInv'
  BY <1>0, <1>18
  DEF CallStop, MainTo, ControlTypeOK, ThreadTypeOK, StartInv, queueVars, workerVars
<1>19. ASSUME SetStop
      PROVE  LifeInv'
  BY <1>0, <1>19
  DEF SetStop, MainTo, ControlTypeOK, ThreadTypeOK, StartInv, queueVars, workerVars
<1>20. ASSUME StopNetService
      PROVE  LifeInv'
  BY <1>0, <1>20
  DEF StopNetService, MainTo, ControlTypeOK, ThreadTypeOK, StartInv, queueVars, workerVars
<1>21. ASSUME NEW r \in Readers, JoinThread(r)
      PROVE  LifeInv'
  BY <1>0, <1>21
  DEF JoinThread, MainTo, ControlTypeOK, ThreadTypeOK, StartInv, queueVars, workerVars
<1>22. ASSUME StopReturns
      PROVE  LifeInv'
  BY <1>0, <1>22
  DEF StopReturns, MainTo, ControlTypeOK, ThreadTypeOK, StartInv, queueVars, workerVars
<1>23. ASSUME Destroy
      PROVE  LifeInv'
  BY <1>0, <1>23
  DEF Destroy, Uninit, MainTo, ControlTypeOK, ThreadTypeOK, StartInv, workerVars
<1>24. ASSUME UNCHANGED vars
      PROVE  LifeInv'
  BY <1>0, <1>24
  DEF vars, ControlTypeOK, ThreadTypeOK, StartInv, queueVars, controlVars, workerVars,
      readerVars
<1>25. QED
  BY <1>1, <1>2, <1>3, <1>4, <1>5, <1>6, <1>7, <1>8, <1>9, <1>10, <1>11, <1>12, <1>13,
     <1>14, <1>15, <1>16, <1>17, <1>18, <1>19, <1>20, <1>21, <1>22, <1>23, <1>24, AllocCases
  DEF Next, WorkerStep, ReaderStep, MainStep

LEMMA LifeFreesLast == LifeInv => NoBufferAfterFree
BY DEF LifeInv, NoBufferAfterFree

\* HttpServiceImplementer::Stop and its destructor: when StopNetService has waited the
\* workers out, the pool is freed after the last thread that could touch a buffer, also
\* when Start failed half-way and when threads had to be terminated.
THEOREM FreedAfterLastUse ==
    ASSUME ~LateWorkers
    PROVE  Spec => []NoBufferAfterFree
<1>1. Init => QueueInv /\ LifeInv
  BY QueueInvInit, LifeInvInit
<1>2. (QueueInv /\ LifeInv) /\ [Next]_vars => (QueueInv /\ LifeInv)'
  BY QueueInvStep, LifeInvStep
<1>3. QED BY <1>1, <1>2, LifeFreesLast, PTL DEF Spec

-----------------------------------------------------------------------------
(* RequestsOf is a recursive function.  What it does to a queue that grows,  *)
(* shrinks or stays is proved by induction over its table of prefixes.       *)

\* Induction over Nat for a set: a least number outside T has a predecessor in it.
LEMMA NatSetInduction ==
    ASSUME NEW T, 0 \in T, \A n \in Nat : n \in T => n + 1 \in T
    PROVE  Nat \subseteq T
<1> DEFINE R == OpToRel(<, Nat)
           M == Nat \ T
<1>1. IsWellFoundedOn(R, Nat)
  BY NatLessThanWellFounded
<1>2. SUFFICES ASSUME M # {} PROVE FALSE
  OBVIOUS
<1>3. PICK x \in M : \A y \in M : ~(<<y, x>> \in R)
  <2> HIDE DEF R, M
  <2>1. M \subseteq Nat BY DEF M
  <2>2. QED BY <1>1, <1>2, <2>1, WFMin
<1>4. x # 0 /\ x - 1 \in Nat
  OBVIOUS
<1>5. <<x - 1, x>> \in R
  BY <1>4 DEF OpToRel
<1>6. x - 1 \in T
  BY <1>3, <1>4, <1>5
<1>7. QED BY <1>4, <1>6

\* A turn of the recursion of RequestsOf, and the table it defines.
Turn(queue, packets, f, i) ==
    IF i = 0 THEN <<>>
    ELSE IF Len(packets[queue[i]]) = 2 THEN Append(f[i - 1], packets[queue[i]][2])
    ELSE f[i - 1]
IsTable(f, queue, packets) == f = [i \in 0..Len(queue) |-> Turn(queue, packets, f, i)]

\* The table exists: a longer one agrees with it.
LEMMA TableExists ==
    ASSUME NEW queue, NEW packets, NEW n \in Nat
    PROVE  \E f : f = [i \in 0..n |-> Turn(queue, packets, f, i)]
<1> DEFINE T == {m \in Nat : \E f : f = [i \in 0..m |-> Turn(queue, packets, f, i)]}
<1>1. 0 \in T
  <2> DEFINE f == [i \in 0..0 |-> <<>>]
  <2>1. f = [i \in 0..0 |-> Turn(queue, packets, f, i)]
    BY DEF Turn
  <2>2. QED BY <2>1
<1>2. ASSUME NEW m \in Nat, m \in T PROVE m + 1 \in T
  <2>1. PICK f : f = [i \in 0..m |-> Turn(queue, packets, f, i)]
    BY <1>2
  <2> DEFINE g == [i \in 0..(m + 1) |-> IF i = m + 1 THEN Turn(queue, packets, f, i) ELSE f[i]]
  <2>2. ASSUME NEW i \in 0..(m + 1) PROVE g[i] = Turn(queue, packets, g, i)
    <3>1. CASE i = 0
      BY <2>1, <3>1 DEF Turn
    <3>2. CASE i # 0
      <4>1. g[i - 1] = f[i - 1] /\ i - 1 \in 0..m
        BY <3>2
      <4>2. Turn(queue, packets, g, i) = Turn(queue, packets, f, i)
        BY <3>2, <4>1 DEF Turn
      <4>3. i # m + 1 => f[i] = Turn(queue, packets, f, i)
        BY <2>1
      <4>4. QED BY <4>2, <4>3
    <3>3. QED BY <3>1, <3>2
  <2>3. g = [i \in 0..(m + 1) |-> Turn(queue, packets, g, i)]
    <3>1. g = [i \in 0..(m + 1) |-> g[i]]
      OBVIOUS
    <3> HIDE DEF g
    <3>2. QED BY <2>2, <3>1
  <2>4. \E h : h = [i \in 0..(m + 1) |-> Turn(queue, packets, h, i)]
    <3> HIDE DEF g
    <3>1. QED BY <2>3
  <2>5. QED BY <2>4
<1>3. Nat \subseteq T
  <2> HIDE DEF T
  <2>1. QED BY <1>1, <1>2, NatSetInduction
<1>4. QED BY <1>3

\* RequestsOf is the last entry of the table.
LEMMA Table ==
    ASSUME NEW queue, NEW packets, Len(queue) \in Nat
    PROVE  \E f : IsTable(f, queue, packets) /\ RequestsOf(queue, packets) = f[Len(queue)]
<1> DEFINE f == CHOOSE f : f = [i \in 0..Len(queue) |-> Turn(queue, packets, f, i)]
<1>1. f = [i \in 0..Len(queue) |-> Turn(queue, packets, f, i)]
  BY TableExists
<1>2. RequestsOf(queue, packets) = f[Len(queue)]
  BY DEF RequestsOf, Turn
<1>3. QED BY <1>1, <1>2 DEF IsTable

LEMMA TableTurn ==
    ASSUME NEW queue, NEW packets, NEW f, IsTable(f, queue, packets), Len(queue) \in Nat,
           NEW i \in 0..Len(queue)
    PROVE  f[i] = Turn(queue, packets, f, i)
BY DEF IsTable

\* Two tables agree as far as the packets of the queues do.
LEMMA TablesAgree ==
    ASSUME NEW queue, NEW packets, NEW f, IsTable(f, queue, packets), Len(queue) \in Nat,
           NEW other, NEW later, NEW g, IsTable(g, other, later), Len(other) \in Nat,
           NEW n \in Nat, n <= Len(queue), n <= Len(other),
           \A i \in 1..n : packets[queue[i]] = later[other[i]]
    PROVE  f[n] = g[n]
<1> DEFINE T == {i \in Nat : i <= n => f[i] = g[i]}
<1>1. 0 \in T
  BY TableTurn DEF Turn
<1>2. ASSUME NEW i \in Nat, i \in T PROVE i + 1 \in T
  <2> SUFFICES ASSUME i + 1 <= n PROVE f[i + 1] = g[i + 1]
    OBVIOUS
  <2>1. f[i] = g[i] /\ i + 1 \in 1..n /\ i + 1 # 0 /\ (i + 1) - 1 = i
    BY <1>2
  <2>2. f[i + 1] = Turn(queue, packets, f, i + 1) /\ g[i + 1] = Turn(other, later, g, i + 1)
    BY TableTurn
  <2>3. packets[queue[i + 1]] = later[other[i + 1]]
    BY <2>1
  <2>4. QED BY <2>1, <2>2, <2>3 DEF Turn
<1>3. Nat \subseteq T
  <2> HIDE DEF T
  <2>1. QED BY <1>1, <1>2, NatSetInduction
<1>4. QED BY <1>3

\* The whole packets of a queue of buffers B hold requests of R.
HoldRequests(queue, packets, R) ==
    \A i \in 1..Len(queue) : Len(packets[queue[i]]) = 2 => packets[queue[i]][2] \in R

\* q is the request of one of the first n packets.
Among(q, queue, packets, n) ==
    \E i \in 1..n : Len(packets[queue[i]]) = 2 /\ packets[queue[i]][2] = q
Occurs(q, s) == \E j \in 1..Len(s) : s[j] = q

LEMMA OccursAppend ==
    ASSUME NEW R, NEW s \in Seq(R), NEW e \in R
    PROVE  /\ Append(s, e) \in Seq(R)
           /\ \A q : Occurs(q, Append(s, e)) <=> Occurs(q, s) \/ e = q
<1> DEFINE t == Append(s, e)
<1>1. /\ t \in Seq(R) /\ Len(t) = Len(s) + 1 /\ Len(s) \in Nat /\ t[Len(s) + 1] = e
      /\ \A j \in 1..Len(s) : t[j] = s[j]
  OBVIOUS
<1> HIDE DEF t
<1>2. 1..Len(t) = 1..Len(s) \cup {Len(s) + 1}
  BY <1>1
<1>3. \A q : Occurs(q, t) <=> Occurs(q, s) \/ e = q
  BY <1>1, <1>2 DEF Occurs
<1>4. QED BY <1>1, <1>3 DEF t

\* What is in a table, and from which packets it came.
LEMMA TableType ==
    ASSUME NEW queue, NEW packets, NEW f, IsTable(f, queue, packets), Len(queue) \in Nat,
           NEW R, HoldRequests(queue, packets, R)
    PROVE  \A n \in 0..Len(queue) :
              f[n] \in Seq(R) /\ \A q : Occurs(q, f[n]) <=> Among(q, queue, packets, n)
<1> DEFINE Good(n) == f[n] \in Seq(R) /\ \A q : Occurs(q, f[n]) <=> Among(q, queue, packets, n)
           T == {n \in Nat : n <= Len(queue) => Good(n)}
<1>1. 0 \in T
  <2>1. f[0] = <<>>
    BY TableTurn DEF Turn
  <2>2. f[0] \in Seq(R)
    BY <2>1
  <2>3. \A q : ~Occurs(q, f[0])
    BY <2>1 DEF Occurs
  <2>4. \A q : ~Among(q, queue, packets, 0)
    BY DEF Among
  <2>5. QED BY <2>2, <2>3, <2>4
<1>2. ASSUME NEW n \in Nat, n \in T PROVE n + 1 \in T
  <2> SUFFICES ASSUME n + 1 <= Len(queue) PROVE Good(n + 1)
    OBVIOUS
  <2>0. n <= Len(queue) /\ n + 1 \in 0..Len(queue)
    OBVIOUS
  <2>1. Good(n)
    BY <1>2, <2>0
  <2> HIDE DEF Good, T
  <2>2. f[n + 1] = IF Len(packets[queue[n + 1]]) = 2 THEN Append(f[n], packets[queue[n + 1]][2])
                   ELSE f[n]
    BY <2>0, TableTurn DEF Turn
  <2>3. \A q : Among(q, queue, packets, n + 1)
                  <=> \/ Among(q, queue, packets, n)
                      \/ Len(packets[queue[n + 1]]) = 2 /\ packets[queue[n + 1]][2] = q
    <3>1. 1..(n + 1) = 1..n \cup {n + 1}
      OBVIOUS
    <3>2. QED BY <3>1 DEF Among
  <2>4. CASE Len(packets[queue[n + 1]]) = 2
    <3> DEFINE e == packets[queue[n + 1]][2]
    <3>1. e \in R
      BY <2>0, <2>4 DEF HoldRequests
    <3>2. f[n + 1] = Append(f[n], e)
      BY <2>2, <2>4
    <3>3. \A q : Among(q, queue, packets, n + 1) <=> Among(q, queue, packets, n) \/ e = q
      BY <2>3, <2>4
    <3> HIDE DEF e
    <3>4. f[n] \in Seq(R) /\ \A q : Occurs(q, f[n]) <=> Among(q, queue, packets, n)
      BY <2>1 DEF Good
    <3>5. /\ f[n + 1] \in Seq(R)
          /\ \A q : Occurs(q, f[n + 1]) <=> Occurs(q, f[n]) \/ e = q
      BY <3>1, <3>2, <3>4, OccursAppend
    <3>6. QED BY <3>3, <3>4, <3>5 DEF Good
  <2>5. CASE Len(packets[queue[n + 1]]) # 2
    <3>1. f[n + 1] = f[n]
      BY <2>2, <2>5
    <3>2. \A q : Among(q, queue, packets, n + 1) <=> Among(q, queue, packets, n)
      BY <2>3, <2>5
    <3>3. QED BY <2>1, <3>1, <3>2 DEF Good
  <2>6. QED BY <2>4, <2>5
<1>3. Nat \subseteq T
  <2> HIDE DEF T
  <2>1. QED BY <1>1, <1>2, NatSetInduction
<1>4. QED BY <1>3

\* RequestsOf of the empty queue, of a queue whose packets did not change, of a queue that
\* has grown by a packet, and of one that has lost its first.
LEMMA OfNone == ASSUME NEW packets PROVE RequestsOf(<<>>, packets) = <<>>
<1>1. PICK f : IsTable(f, <<>>, packets) /\ RequestsOf(<<>>, packets) = f[Len(<<>>)]
  BY Table
<1>2. Len(<<>>) = 0
  OBVIOUS
<1>3. f[0] = Turn(<<>>, packets, f, 0)
  BY <1>1, <1>2, TableTurn
<1>4. QED BY <1>1, <1>2, <1>3 DEF Turn

LEMMA OfType ==
    ASSUME NEW queue, NEW packets, Len(queue) \in Nat, NEW R, HoldRequests(queue, packets, R)
    PROVE  /\ RequestsOf(queue, packets) \in Seq(R)
           /\ \A q : Occurs(q, RequestsOf(queue, packets))
                        <=> Among(q, queue, packets, Len(queue))
<1>1. PICK f : IsTable(f, queue, packets) /\ RequestsOf(queue, packets) = f[Len(queue)]
  BY Table
<1>2. QED BY <1>1, TableType

LEMMA OfSame ==
    ASSUME NEW queue, NEW packets, NEW later, Len(queue) \in Nat,
           \A i \in 1..Len(queue) : packets[queue[i]] = later[queue[i]]
    PROVE  RequestsOf(queue, packets) = RequestsOf(queue, later)
<1>1. PICK f : IsTable(f, queue, packets) /\ RequestsOf(queue, packets) = f[Len(queue)]
  BY Table
<1>2. PICK g : IsTable(g, queue, later) /\ RequestsOf(queue, later) = g[Len(queue)]
  BY Table
<1>3. QED BY <1>1, <1>2, TablesAgree

LEMMA OfAppend ==
    ASSUME NEW B, NEW queue \in Seq(B), NEW b \in B, NEW packets
    PROVE  RequestsOf(Append(queue, b), packets) =
              IF Len(packets[b]) = 2 THEN Append(RequestsOf(queue, packets), packets[b][2])
              ELSE RequestsOf(queue, packets)
<1> DEFINE longer == Append(queue, b)
           n == Len(queue)
<1>1. /\ n \in Nat /\ Len(longer) = n + 1 /\ longer[n + 1] = b
      /\ \A i \in 1..n : longer[i] = queue[i]
  OBVIOUS
<1> HIDE DEF longer
<1>2. PICK f : IsTable(f, queue, packets) /\ RequestsOf(queue, packets) = f[n]
  BY <1>1, Table
<1> HIDE DEF n
<1>3. PICK g : IsTable(g, longer, packets) /\ RequestsOf(longer, packets) = g[n + 1]
  BY <1>1, Table
<1>4. f[n] = g[n]
  BY <1>1, <1>2, <1>3, TablesAgree DEF n
<1>5. g[n + 1] = Turn(longer, packets, g, n + 1)
  BY <1>1, <1>3, TableTurn
<1>6. n + 1 # 0 /\ (n + 1) - 1 = n
  BY <1>1
<1>7. QED BY <1>1, <1>2, <1>3, <1>4, <1>5, <1>6 DEF Turn, longer

\* Appending to a concatenation.
AppendsLast(s, t, e) == Append(s \o t, e) = s \o Append(t, e)

LEMMA AppendConcat ==
    ASSUME NEW R, NEW s \in Seq(R), NEW t \in Seq(R), NEW e \in R
    PROVE  AppendsLast(s, t, e)
<1>1. <<e>> \in Seq(R) /\ s \o t \in Seq(R)
  BY ConcatProperties
<1>2. (s \o t) \o <<e>> = s \o (t \o <<e>>)
  BY <1>1, ConcatAssociative
<1>3. Append(s \o t, e) = (s \o t) \o <<e>>
  BY <1>1, AppendIsConcat
<1>4. Append(t, e) = t \o <<e>>
  BY AppendIsConcat
<1>5. QED BY <1>2, <1>3, <1>4 DEF AppendsLast

LEMMA OfTail ==
    ASSUME NEW B, NEW queue \in Seq(B), queue # <<>>, NEW packets, NEW R,
           HoldRequests(queue, packets, R)
    PROVE  RequestsOf(queue, packets) =
              (IF Len(packets[Head(queue)]) = 2 THEN <<packets[Head(queue)][2]>> ELSE <<>>)
                 \o RequestsOf(Tail(queue), packets)
<1> DEFINE rest == Tail(queue)
           first == IF Len(packets[Head(queue)]) = 2 THEN <<packets[Head(queue)][2]>> ELSE <<>>
           n == Len(rest)
<1>1. /\ n \in Nat /\ Len(queue) = n + 1 /\ Head(queue) = queue[1]
      /\ \A i \in 1..n : rest[i] = queue[i + 1]
  BY HeadTailProperties
<1> HIDE DEF rest, n
<1>2. HoldRequests(rest, packets, R)
  BY <1>1 DEF HoldRequests, n
<1>3. first \in Seq(R)
  <2>1. 1 \in 1..Len(queue)
    BY <1>1
  <2>2. Len(packets[queue[1]]) = 2 => packets[queue[1]][2] \in R
    BY <2>1 DEF HoldRequests
  <2>3. QED BY <1>1, <2>2
<1>0. first = IF Len(packets[queue[1]]) = 2 THEN <<packets[queue[1]][2]>> ELSE <<>>
  BY <1>1
<1> HIDE DEF first
<1>a. Len(queue) \in Nat
  BY <1>1
<1>4. PICK f : IsTable(f, queue, packets) /\ RequestsOf(queue, packets) = f[Len(queue)]
  BY <1>a, Table
<1>5. PICK g : IsTable(g, rest, packets) /\ RequestsOf(rest, packets) = g[n]
  BY <1>1, Table DEF n
<1>6. \A i \in 0..n : g[i] \in Seq(R)
  BY <1>1, <1>2, <1>5, TableType DEF n
<1> DEFINE T == {i \in Nat : i <= n => f[i + 1] = first \o g[i]}
<1>7. 0 \in T
  <2>1. g[0] = <<>> /\ f[0] = <<>>
    BY <1>1, <1>4, <1>5, TableTurn DEF Turn, n
  <2>2. f[1] = Turn(queue, packets, f, 1)
    BY <1>1, <1>4, TableTurn
  <2> DEFINE x == packets[queue[1]][2]
  <2>3. f[1] = first
    <3>1. first = IF Len(packets[queue[1]]) = 2 THEN <<x>> ELSE <<>>
      BY <1>0
    <3>2. f[1] = IF Len(packets[queue[1]]) = 2 THEN Append(<<>>, x) ELSE <<>>
      <4>1. 1 # 0 /\ 1 - 1 = 0
        OBVIOUS
      <4>2. QED BY <2>1, <2>2, <4>1, Zenon DEF Turn
    <3> HIDE DEF x
    <3>3. Append(<<>>, x) = <<x>>
      OBVIOUS
    <3>4. QED BY <3>1, <3>2, <3>3
  <2>4. first \o <<>> = first
    BY <1>3, ConcatEmptySeq
  <2>5. f[0 + 1] = first \o g[0]
    BY <2>1, <2>3, <2>4
  <2>6. QED BY <2>5
<1>8. ASSUME NEW i \in Nat, i \in T PROVE i + 1 \in T
  <2> SUFFICES ASSUME i + 1 <= n PROVE f[(i + 1) + 1] = first \o g[i + 1]
    OBVIOUS
  <2>1. f[i + 1] = first \o g[i]
    BY <1>1, <1>8
  <2>2. g[i + 1] = Turn(rest, packets, g, i + 1)
    BY <1>1, <1>5, TableTurn DEF n
  <2>3. f[(i + 1) + 1] = Turn(queue, packets, f, (i + 1) + 1)
    BY <1>1, <1>4, TableTurn
  <2>4. rest[i + 1] = queue[(i + 1) + 1]
    BY <1>1
  <2>5. /\ i + 1 # 0 /\ (i + 1) - 1 = i
        /\ (i + 1) + 1 # 0 /\ ((i + 1) + 1) - 1 = i + 1
    OBVIOUS
  <2> DEFINE b == rest[i + 1]
  <2>6. g[i] \in Seq(R)
    BY <1>1, <1>6
  <2>7. Len(packets[b]) = 2 => packets[b][2] \in R
    BY <1>1, <1>2 DEF HoldRequests, n
  <2> HIDE DEF b
  <2>8. g[i + 1] = IF Len(packets[b]) = 2 THEN Append(g[i], packets[b][2]) ELSE g[i]
    BY <2>2, <2>5 DEF Turn, b
  <2>9. f[(i + 1) + 1] = IF Len(packets[b]) = 2 THEN Append(f[i + 1], packets[b][2]) ELSE f[i + 1]
    BY <2>3, <2>4, <2>5 DEF Turn, b
  <2>10. ASSUME NEW e \in R PROVE Append(first \o g[i], e) = first \o Append(g[i], e)
    <3>1. AppendsLast(first, g[i], e)
      BY <1>3, <2>6, <2>10, AppendConcat
    <3>2. QED BY <3>1 DEF AppendsLast
  <2>11. QED BY <2>1, <2>7, <2>8, <2>9, <2>10
<1>9. Nat \subseteq T
  <2> HIDE DEF T
  <2>1. QED BY <1>7, <1>8, NatSetInduction
<1>10. f[n + 1] = first \o g[n]
  BY <1>1, <1>9
<1>11. QED BY <1>1, <1>4, <1>5, <1>10 DEF rest, first

-----------------------------------------------------------------------------
(* ChannelSpec.  Where a request can be: with a worker, in the queue, with a *)
(* reader, or handled.  It is in one of these places at most, and a reader   *)
(* holds it after it was handled only to give its buffer back.               *)

\* A whole packet ends in a request, which is its worker's until it is queued.
PacketInv ==
    /\ \A b \in Buffers : Whole(b) => content[b][2] \in Requests
    /\ \A w \in Workers : wpc[w] = "write" => content[wbuf[w]] = <<>>
    /\ \A w \in Workers : wpc[w] = "push" /\ Whole(wbuf[w]) => content[wbuf[w]][2] = wreq[w]

\* The places a request can be in.
WorkerHas(w, q) == wpc[w] # "idle" /\ wreq[w] = q
QueueHas(i, q) == Whole(m_queue[i]) /\ content[m_queue[i]][2] = q
ReaderHas(r, q) == rbuf[r] # NoBuffer /\ Whole(rbuf[r]) /\ content[rbuf[r]][2] = q
Handled(q) == Occurs(q, handled)

ArrivedFirst ==
    \A q \in Requests :
        /\ \A w \in Workers : WorkerHas(w, q) => q \in arrived
        /\ \A i \in Slots : QueueHas(i, q) => q \in arrived
        /\ \A r \in Readers : ReaderHas(r, q) => q \in arrived
        /\ Handled(q) => q \in arrived
InOnePlace ==
    \A q \in Requests :
        /\ \A v, w \in Workers : WorkerHas(v, q) /\ WorkerHas(w, q) => v = w
        /\ \A i, j \in Slots : QueueHas(i, q) /\ QueueHas(j, q) => i = j
        /\ \A r, s \in Readers : ReaderHas(r, q) /\ ReaderHas(s, q) => r = s
        /\ \A w \in Workers, i \in Slots : ~(WorkerHas(w, q) /\ QueueHas(i, q))
        /\ \A w \in Workers, r \in Readers : ~(WorkerHas(w, q) /\ ReaderHas(r, q))
        /\ \A i \in Slots, r \in Readers : ~(QueueHas(i, q) /\ ReaderHas(r, q))
HandledOnce ==
    \A q \in Requests :
        /\ \A w \in Workers : WorkerHas(w, q) => ~Handled(q)
        /\ \A i \in Slots : QueueHas(i, q) => ~Handled(q)
        /\ \A r \in Readers : ReaderHas(r, q) =>
              /\ rpc[r] = "handle" => ~Handled(q)
              /\ rpc[r] \in {"release", "free"} => Handled(q)
OnceInv == ArrivedFirst /\ InOnePlace /\ HandledOnce

-----------------------------------------------------------------------------
\* A step that neither moves nor changes a request.
Quiet ==
    /\ UNCHANGED <<content, m_queue, rbuf, handled, wpc, wbuf, wreq, arrived>>
    /\ \A r \in Readers : /\ rpc'[r] = "handle" => rpc[r] = "handle"
                          /\ rpc'[r] \in {"release", "free"} => rpc[r] \in {"release", "free"}

LEMMA StepCases ==
    ASSUME QueueInv, [Next]_vars
    PROVE  \/ Quiet
           \/ \E w \in Workers :
                 \/ \E q \in Requests : Receive(w, q)
                 \/ wpc[w] = "alloc" /\ RefuseRequest(w)
                 \/ \E b \in m_freeList : AllocInto(w, b)
                 \/ WriteBoth(w) \/ PushPacket(w)
           \/ \E r \in Readers : (Pop(r) /\ m_queue # <<>>) \/ Handle(r) \/ ReleasePacket(r)
<1>0. ThreadTypeOK /\ HandInv
  BY DEF QueueInv, TypeOK
<1> USE DEF Quiet
<1>1. ASSUME NEW r \in Readers, LoopTest(r)
      PROVE  Quiet
  BY <1>0, <1>1 DEF LoopTest, queueVars, workerVars, ThreadTypeOK
<1>2. ASSUME NEW r \in Readers, WaitToken(r)
      PROVE  Quiet
  BY <1>0, <1>2 DEF WaitToken, SemWait, workerVars, ThreadTypeOK
<1>3. ASSUME NEW r \in Readers, WaitTimeout(r)
      PROVE  Quiet
  BY <1>0, <1>3 DEF WaitTimeout, queueVars, workerVars, ThreadTypeOK
<1>4. ASSUME NEW r \in Readers, LockToPop(r)
      PROVE  Quiet
  BY <1>0, <1>4 DEF LockToPop, EnterLock, workerVars, ThreadTypeOK
<1>5. ASSUME NEW r \in Readers, LockToRelease(r)
      PROVE  Quiet
  BY <1>0, <1>5 DEF LockToRelease, EnterLock, workerVars, ThreadTypeOK
<1>6. ASSUME NEW r \in Readers, JoinThread(r)
      PROVE  Quiet
  BY <1>0, <1>6 DEF JoinThread, MainTo, queueVars, workerVars, ThreadTypeOK
<1>7. ASSUME NEW r \in Readers, Pop(r), m_queue = <<>>
      PROVE  Quiet
  BY <1>0, <1>7 DEF Pop, PopLocked, workerVars, ThreadTypeOK, HandInv
<1>8. ASSUME InitQueueOK
      PROVE  Quiet
  BY <1>0, <1>8 DEF InitQueueOK, InitPool, MainTo, workerVars, ThreadTypeOK
<1>9. ASSUME InitQueueFails
      PROVE  Quiet
  BY <1>0, <1>9 DEF InitQueueFails, Uninit, MainTo, workerVars, ThreadTypeOK
<1>10. ASSUME StartThreads
      PROVE  Quiet
  BY <1>0, <1>10 DEF StartThreads, MainTo, queueVars, workerVars, ThreadTypeOK
<1>11. ASSUME StartNetService
      PROVE  Quiet
  BY <1>0, <1>11 DEF StartNetService, MainTo, queueVars, workerVars, ThreadTypeOK
<1>12. ASSUME CallStop
      PROVE  Quiet
  BY <1>0, <1>12 DEF CallStop, MainTo, queueVars, workerVars, ThreadTypeOK
<1>13. ASSUME SetStop
      PROVE  Quiet
  BY <1>0, <1>13 DEF SetStop, MainTo, queueVars, workerVars, ThreadTypeOK
<1>14. ASSUME StopNetService
      PROVE  Quiet
  BY <1>0, <1>14 DEF StopNetService, MainTo, queueVars, workerVars, ThreadTypeOK
<1>15. ASSUME StopReturns
      PROVE  Quiet
  BY <1>0, <1>15 DEF StopReturns, MainTo, queueVars, workerVars, ThreadTypeOK
<1>16. ASSUME Destroy
      PROVE  Quiet
  BY <1>0, <1>16 DEF Destroy, Uninit, MainTo, workerVars, ThreadTypeOK
<1>17. ASSUME UNCHANGED vars
      PROVE  Quiet
  BY <1>0, <1>17 DEF vars, queueVars, workerVars, readerVars
<1> HIDE DEF Quiet
<1>18. QED
  BY <1>1, <1>2, <1>3, <1>4, <1>5, <1>6, <1>7, <1>8, <1>9, <1>10, <1>11, <1>12, <1>13,
     <1>14, <1>15, <1>16, <1>17, AllocCases
  DEF Next, WorkerStep, ReaderStep, MainStep

\* Two Writes into an empty packet: a second piece can only be the second one written.
SecondIs(s, q) == Len(s) = 2 => s[2] = q

LEMMA SecondAppended ==
    ASSUME NEW S, NEW s \in Seq(S), NEW q \in S, Len(s) < 2
    PROVE  SecondIs(s, q) /\ SecondIs(Append(s, q), q)
BY AppendProperties DEF SecondIs

LEMMA WriteTwice ==
    ASSUME NEW p, NEW q
    PROVE  SecondIs(Write(Write(<<>>, p), q), q)
<1> DEFINE S == {p, q}
           once == Write(<<>>, p)
           Short(s) == s \in Seq(S) /\ Len(s) < 2
<1>1. Short(<<>>) /\ Short(Append(<<>>, p))
  OBVIOUS
<1>2. once = <<>> \/ once = Append(<<>>, p)
  BY DEF Write
<1>3. Short(once)
  <2> HIDE DEF once, Short
  <2>1. QED BY <1>1, <1>2, Zenon
<1> HIDE DEF once
<1>4. SecondIs(once, q) /\ SecondIs(Append(once, q), q)
  BY <1>3, SecondAppended
<1>5. Write(once, q) = once \/ Write(once, q) = Append(once, q)
  BY DEF Write
<1>6. QED BY <1>4, <1>5, Zenon DEF once

LEMMA PacketInvInit == Init => PacketInv
BY DEF Init, InitQueue, PacketInv, Whole

LEMMA PacketInvStep == QueueInv /\ OwnInv /\ PacketInv /\ [Next]_vars => PacketInv'
<1> SUFFICES ASSUME QueueInv, OwnInv, PacketInv, [Next]_vars PROVE PacketInv'
  OBVIOUS
<1>0. QueueTypeOK /\ ThreadTypeOK /\ RequestTypeOK /\ HandInv
  BY DEF QueueInv, TypeOK
<1>1. ASSUME Quiet PROVE PacketInv'
  BY <1>1 DEF Quiet, PacketInv, Whole
<1>2. ASSUME NEW w \in Workers, NEW q \in Requests, Receive(w, q) PROVE PacketInv'
  BY <1>0, <1>2 DEF Receive, queueVars, PacketInv, Whole, ThreadTypeOK
<1>3. ASSUME NEW w \in Workers, RefuseRequest(w) PROVE PacketInv'
  BY <1>0, <1>3 DEF RefuseRequest, queueVars, PacketInv, Whole, ThreadTypeOK
<1>4. ASSUME NEW w \in Workers, NEW b \in m_freeList, AllocInto(w, b) PROVE PacketInv'
  <2>1. /\ content' = [content EXCEPT ![b] = <<>>] /\ wreq' = wreq /\ wpc[w] = "alloc"
        /\ wbuf' = [wbuf EXCEPT ![w] = b] /\ wpc' = [wpc EXCEPT ![w] = "write"]
        /\ m_pool = "live"
    BY <1>4 DEF AllocInto, AllocWritePacket, CanAlloc
  <2>2. b \in Buffers /\ \A v \in Workers : wbuf[v] # b
    BY <1>0, <2>1 DEF QueueTypeOK, OwnInv, FreeApart
  <2>3. content'[b] = <<>> /\ \A c \in Buffers : c # b => content'[c] = content[c]
    BY <1>0, <2>1, <2>2 DEF RequestTypeOK
  <2>4. ~Whole(b)'
    BY <2>3 DEF Whole
  <2>5. \A c \in Buffers : c # b => (Whole(c)' <=> Whole(c))
    BY <2>3 DEF Whole
  <2>6. ASSUME NEW v \in Workers, v # w
        PROVE  wbuf'[v] = wbuf[v] /\ wpc'[v] = wpc[v] /\ wbuf'[v] # b
    BY <1>0, <2>1, <2>2, <2>6 DEF ThreadTypeOK
  <2>7. wbuf'[w] = b /\ wpc'[w] = "write"
    BY <1>0, <2>1 DEF ThreadTypeOK
  <2>8. \A v \in Workers : wpc[v] \in {"write", "push"} => wbuf[v] \in Buffers
    BY <1>0 DEF HandInv, ThreadTypeOK
  <2>9. \A c \in Buffers : Whole(c)' => content'[c][2] \in Requests
    BY <2>3, <2>4, <2>5 DEF PacketInv
  <2>10. ASSUME NEW v \in Workers
         PROVE  /\ wpc'[v] = "write" => content'[wbuf'[v]] = <<>>
                /\ wpc'[v] = "push" /\ Len(content'[wbuf'[v]]) = 2
                      => content'[wbuf'[v]][2] = wreq'[v]
    <3>1. CASE v = w
      BY <2>3, <2>7, <3>1
    <3>2. CASE v # w
      <4>1. wpc[v] \in {"write", "push"} => content'[wbuf'[v]] = content[wbuf[v]]
        BY <2>3, <2>6, <2>8, <3>2
      <4>2. QED BY <2>1, <2>6, <3>2, <4>1 DEF PacketInv, Whole
    <3>3. QED BY <3>1, <3>2
  <2>11. QED BY <2>9, <2>10 DEF PacketInv, Whole
<1>5. ASSUME NEW w \in Workers, WriteBoth(w) PROVE PacketInv'
  <2> DEFINE b == wbuf[w]
             q == wreq[w]
             once == Write(content[b], Header)
  <2>1. /\ content' = [content EXCEPT ![b] = Write(once, q)] /\ wreq' = wreq /\ wbuf' = wbuf
        /\ wpc[w] = "write" /\ wpc' = [wpc EXCEPT ![w] = "push"]
    BY <1>5 DEF WriteBoth
  <2>2. b \in Buffers /\ q \in Requests /\ content[b] = <<>>
    BY <1>0, <2>1 DEF HandInv, ThreadTypeOK, PacketInv
  <2>3. SecondIs(Write(once, q), q)
    BY <2>2, WriteTwice, Zenon
  <2>5. content'[b] = Write(once, q) /\ \A c \in Buffers : c # b => content'[c] = content[c]
    BY <1>0, <2>1, <2>2 DEF RequestTypeOK
  <2>6. Len(content'[b]) = 2 => content'[b][2] = q
    <3> HIDE DEF once
    <3>1. QED BY <2>3, <2>5 DEF SecondIs
  <2>7. \A v \in Workers :
           wpc[v] \in {"write", "push"} /\ v # w => wbuf[v] \in Buffers /\ wbuf[v] # b
    BY <1>0, <2>2 DEF HandInv, ThreadTypeOK, OwnInv, HandsApart
  <2>8. wpc'[w] = "push" /\ \A v \in Workers : v # w => wpc'[v] = wpc[v]
    BY <1>0, <2>1 DEF ThreadTypeOK
  <2>9. \A c \in Buffers : Len(content'[c]) = 2 => content'[c][2] \in Requests
    BY <2>2, <2>5, <2>6 DEF PacketInv, Whole
  <2>10. ASSUME NEW v \in Workers
         PROVE  /\ wpc'[v] = "write" => content'[wbuf[v]] = <<>>
                /\ wpc'[v] = "push" /\ Len(content'[wbuf[v]]) = 2 => content'[wbuf[v]][2] = wreq[v]
    <3>1. CASE v = w
      BY <2>6, <2>8, <3>1
    <3>2. CASE v # w
      BY <2>5, <2>7, <2>8, <3>2 DEF PacketInv, Whole
    <3>3. QED BY <3>1, <3>2
  <2>11. QED BY <2>1, <2>9, <2>10 DEF PacketInv, Whole
<1>6. ASSUME NEW w \in Workers, PushPacket(w) PROVE PacketInv'
  <2>1. /\ content' = content /\ wreq' = wreq
        /\ wbuf' = [wbuf EXCEPT ![w] = NoBuffer] /\ wpc' = [wpc EXCEPT ![w] = "idle"]
    BY <1>6 DEF PushPacket, Push
  <2>2. wpc'[w] = "idle" /\ \A v \in Workers : v # w => wpc'[v] = wpc[v] /\ wbuf'[v] = wbuf[v]
    BY <1>0, <2>1 DEF ThreadTypeOK
  <2>3. QED BY <2>1, <2>2 DEF PacketInv, Whole
<1>7. ASSUME NEW r \in Readers, Pop(r) PROVE PacketInv'
  BY <1>7 DEF Pop, PopLocked, workerVars, PacketInv, Whole
<1>8. ASSUME NEW r \in Readers, Handle(r) PROVE PacketInv'
  BY <1>8 DEF Handle, queueVars, workerVars, PacketInv, Whole
<1>9. ASSUME NEW r \in Readers, ReleasePacket(r) PROVE PacketInv'
  BY <1>9 DEF ReleasePacket, Release, workerVars, PacketInv, Whole
<1>10. QED
  BY <1>1, <1>2, <1>3, <1>4, <1>5, <1>6, <1>7, <1>8, <1>9, StepCases

LEMMA OnceInvInit == Init => OnceInv
<1> SUFFICES ASSUME Init PROVE OnceInv
  OBVIOUS
<1>1. /\ m_queue = <<>> /\ handled = <<>>
      /\ \A w \in Workers : wpc[w] = "idle"
      /\ \A r \in Readers : rbuf[r] = NoBuffer
  BY DEF Init, InitQueue
<1>2. Slots = {} /\ \A q : ~Handled(q)
  BY <1>1 DEF Slots, Handled, Occurs
<1>3. QED
  BY <1>1, <1>2 DEF OnceInv, ArrivedFirst, InOnePlace, HandledOnce, WorkerHas, ReaderHas

\* OnceInv is kept when no place gets a request it had not, and none is handled.
LEMMA OnceKept ==
    ASSUME OnceInv, arrived \subseteq arrived', handled' = handled,
           \A q \in Requests, w \in Workers : WorkerHas(w, q)' => WorkerHas(w, q),
           \A i \in Slots' : i \in Slots /\ \A q \in Requests : QueueHas(i, q)' => QueueHas(i, q),
           \A q \in Requests, r \in Readers : ReaderHas(r, q)' =>
              /\ ReaderHas(r, q)
              /\ rpc'[r] = "handle" => rpc[r] = "handle"
              /\ rpc'[r] \in {"release", "free"} => rpc[r] \in {"release", "free"}
    PROVE  OnceInv'
<1>1. \A q : Handled(q)' <=> Handled(q)
  BY DEF Handled
<1>2. QED BY <1>1 DEF OnceInv, ArrivedFirst, InOnePlace, HandledOnce

LEMMA OnceInvStep ==
    QueueInv /\ OwnInv /\ PacketInv /\ OnceInv /\ [Next]_vars => OnceInv'
<1> SUFFICES ASSUME QueueInv, OwnInv, PacketInv, OnceInv, [Next]_vars PROVE OnceInv'
  OBVIOUS
<1>0. QueueTypeOK /\ ThreadTypeOK /\ RequestTypeOK /\ HandInv
  BY DEF QueueInv, TypeOK
<1>1. ASSUME Quiet PROVE OnceInv'
  BY <1>1, OnceKept DEF Quiet, WorkerHas, QueueHas, ReaderHas, Whole, Slots
<1>2. ASSUME NEW w \in Workers, NEW p \in Requests, Receive(w, p) PROVE OnceInv'
  <2>1. /\ UNCHANGED <<content, m_queue, rbuf, rpc, handled>>
        /\ arrived' = arrived \union {p} /\ p \notin arrived /\ wpc[w] = "idle"
        /\ wreq' = [wreq EXCEPT ![w] = p] /\ wpc' = [wpc EXCEPT ![w] = "alloc"]
    BY <1>2 DEF Receive, queueVars, readerVars
  <2>2. /\ Slots' = Slots
        /\ \A i \in Slots, q \in Requests : QueueHas(i, q)' <=> QueueHas(i, q)
        /\ \A r \in Readers, q \in Requests : ReaderHas(r, q)' <=> ReaderHas(r, q)
        /\ \A q \in Requests : Handled(q)' <=> Handled(q)
    BY <2>1 DEF Slots, QueueHas, ReaderHas, Handled, Whole
  <2>3. \A v \in Workers, q \in Requests :
           WorkerHas(v, q)' <=> IF v = w THEN q = p ELSE WorkerHas(v, q)
    BY <1>0, <2>1 DEF WorkerHas, ThreadTypeOK
  <2>4. ArrivedFirst'
    BY <2>1, <2>2, <2>3 DEF OnceInv, ArrivedFirst
  <2>5. InOnePlace'
    BY <2>1, <2>2, <2>3 DEF OnceInv, ArrivedFirst, InOnePlace
  <2>6. HandledOnce'
    BY <2>1, <2>2, <2>3 DEF OnceInv, ArrivedFirst, HandledOnce
  <2>7. QED BY <2>4, <2>5, <2>6 DEF OnceInv
<1>3. ASSUME NEW w \in Workers, RefuseRequest(w) PROVE OnceInv'
  <2>1. /\ UNCHANGED <<content, m_queue, rbuf, rpc, handled, wreq, arrived>>
        /\ wpc' = [wpc EXCEPT ![w] = "idle"]
    BY <1>3 DEF RefuseRequest, queueVars, readerVars
  <2>2. \A q \in Requests, v \in Workers : WorkerHas(v, q)' => WorkerHas(v, q)
    BY <1>0, <2>1 DEF WorkerHas, ThreadTypeOK
  <2>3. QED BY <2>1, <2>2, OnceKept DEF QueueHas, ReaderHas, Whole, Slots
<1>4. ASSUME NEW w \in Workers, NEW b \in m_freeList, AllocInto(w, b) PROVE OnceInv'
  <2>1. /\ UNCHANGED <<m_queue, rbuf, rpc, handled, wreq, arrived>>
        /\ content' = [content EXCEPT ![b] = <<>>] /\ m_pool = "live"
        /\ wpc[w] = "alloc" /\ wpc' = [wpc EXCEPT ![w] = "write"]
    BY <1>4 DEF AllocInto, AllocWritePacket, CanAlloc, readerVars
  <2>2. \A q \in Requests, v \in Workers : WorkerHas(v, q)' => WorkerHas(v, q)
    BY <1>0, <2>1 DEF WorkerHas, ThreadTypeOK
  <2>3. \A i \in Slots : content'[m_queue[i]] = content[m_queue[i]]
    <3>1. \A i \in Slots : m_queue[i] \in Buffers /\ m_queue[i] # b
      BY <1>0, <2>1 DEF QueueTypeOK, Slots, OwnInv, FreeApart
    <3>2. QED BY <1>0, <2>1, <3>1 DEF RequestTypeOK
  <2>4. \A r \in Readers : rbuf[r] # NoBuffer => content'[rbuf[r]] = content[rbuf[r]]
    <3>1. \A r \in Readers : rbuf[r] # NoBuffer => rbuf[r] \in Buffers /\ rbuf[r] # b
      BY <1>0, <2>1 DEF ThreadTypeOK, OwnInv, FreeApart
    <3>2. QED BY <1>0, <2>1, <3>1 DEF RequestTypeOK
  <2>5. QED BY <2>1, <2>2, <2>3, <2>4, OnceKept DEF QueueHas, ReaderHas, Whole, Slots
<1>5. ASSUME NEW w \in Workers, WriteBoth(w) PROVE OnceInv'
  <2> DEFINE b == wbuf[w]
  <2>1. /\ UNCHANGED <<m_queue, rbuf, rpc, handled, wreq, arrived>>
        /\ \E p : content' = [content EXCEPT ![b] = p]
        /\ wpc[w] = "write" /\ wpc' = [wpc EXCEPT ![w] = "push"]
    BY <1>5 DEF WriteBoth, readerVars
  <2>2. \A q \in Requests, v \in Workers : WorkerHas(v, q)' => WorkerHas(v, q)
    BY <1>0, <2>1 DEF WorkerHas, ThreadTypeOK
  <2>3. \A i \in Slots : content'[m_queue[i]] = content[m_queue[i]]
    <3>1. \A i \in Slots : m_queue[i] \in Buffers /\ m_queue[i] # b
      BY <1>0 DEF QueueTypeOK, Slots, OwnInv, QueueApart
    <3>2. QED BY <1>0, <2>1, <3>1 DEF RequestTypeOK
  <2>4. \A r \in Readers : rbuf[r] # NoBuffer => content'[rbuf[r]] = content[rbuf[r]]
    <3>1. \A r \in Readers : rbuf[r] # NoBuffer => rbuf[r] \in Buffers /\ rbuf[r] # b
      BY <1>0, <2>1 DEF ThreadTypeOK, OwnInv, HandsApart
    <3>2. QED BY <1>0, <2>1, <3>1 DEF RequestTypeOK
  <2>5. QED BY <2>1, <2>2, <2>3, <2>4, OnceKept DEF QueueHas, ReaderHas, Whole, Slots
<1>6. ASSUME NEW w \in Workers, PushPacket(w) PROVE OnceInv'
  <2> DEFINE b == wbuf[w]
  <2>1. /\ UNCHANGED <<content, rbuf, rpc, handled, wreq, arrived>>
        /\ m_queue' = Append(m_queue, b)
        /\ wpc[w] = "push" /\ wpc' = [wpc EXCEPT ![w] = "idle"]
    BY <1>6 DEF PushPacket, Push, readerVars
  <2>2. m_queue \in Seq(Buffers) /\ b \in Buffers
    BY <1>0, <2>1 DEF QueueTypeOK, HandInv, ThreadTypeOK
  <2>3. PICK n \in Nat : /\ n + 1 \notin Slots /\ Slots' = Slots \union {n + 1}
                         /\ m_queue'[n + 1] = b /\ \A i \in Slots : m_queue'[i] = m_queue[i]
    <3>1. PICK n \in Nat : n = Len(m_queue)
      BY <2>2
    <3>2. /\ Len(m_queue') = n + 1 /\ m_queue'[n + 1] = b
          /\ \A i \in 1..n : m_queue'[i] = m_queue[i]
      BY <2>1, <2>2, <3>1
    <3>3. n + 1 \notin 1..n /\ 1..(n + 1) = 1..n \union {n + 1}
      OBVIOUS
    <3>4. QED BY <3>1, <3>2, <3>3 DEF Slots
  <2>4. \A q \in Requests : QueueHas(n + 1, q)' => WorkerHas(w, q)
    BY <2>1, <2>3 DEF QueueHas, WorkerHas, Whole, PacketInv
  <2>5. \A i \in Slots, q \in Requests : QueueHas(i, q)' <=> QueueHas(i, q)
    BY <2>1, <2>3 DEF QueueHas, Whole
  <2>6. \A v \in Workers, q \in Requests : WorkerHas(v, q)' <=> v # w /\ WorkerHas(v, q)
    BY <1>0, <2>1 DEF WorkerHas, ThreadTypeOK
  <2>7. \A q \in Requests : /\ Handled(q)' <=> Handled(q)
                            /\ \A r \in Readers : ReaderHas(r, q)' <=> ReaderHas(r, q)
    BY <2>1 DEF ReaderHas, Handled, Whole
  <2>8. ArrivedFirst'
    BY <2>1, <2>3, <2>4, <2>5, <2>6, <2>7 DEF OnceInv, ArrivedFirst
  <2>9. InOnePlace'
    BY <2>3, <2>4, <2>5, <2>6, <2>7 DEF OnceInv, InOnePlace
  <2>10. HandledOnce'
    BY <2>1, <2>3, <2>4, <2>5, <2>6, <2>7 DEF OnceInv, HandledOnce
  <2>11. QED BY <2>8, <2>9, <2>10 DEF OnceInv
<1>7. ASSUME NEW r \in Readers, Pop(r), m_queue # <<>> PROVE OnceInv'
  <2>1. /\ UNCHANGED <<content, wpc, wreq, handled, arrived>>
        /\ m_queue' = Tail(m_queue) /\ rbuf' = [rbuf EXCEPT ![r] = Head(m_queue)]
        /\ rpc' = [rpc EXCEPT ![r] = "handle"] /\ rbuf[r] = NoBuffer
    BY <1>0, <1>7 DEF Pop, PopLocked, workerVars, HandInv
  <2>2. m_queue \in Seq(Buffers)
    BY <1>0 DEF QueueTypeOK
  <2>3. 1 \in Slots /\ m_queue[1] = Head(m_queue)
    BY <1>7, <2>2 DEF Slots
  <2>4. \A i \in Slots' : /\ i + 1 \in Slots /\ i + 1 # 1 /\ i \in Int
                         /\ m_queue'[i] = m_queue[i + 1]
    BY <1>7, <2>1, <2>2, HeadTailProperties DEF Slots
  <2>5. \A i \in Slots', q \in Requests : QueueHas(i, q)' <=> QueueHas(i + 1, q)
    BY <2>1, <2>4 DEF QueueHas, Whole
  <2>6. /\ rbuf'[r] = m_queue[1] /\ rpc'[r] = "handle"
        /\ \A s \in Readers : s # r => rbuf'[s] = rbuf[s] /\ rpc'[s] = rpc[s]
    BY <1>0, <2>1, <2>3 DEF ThreadTypeOK
  <2>7. \A q \in Requests : ReaderHas(r, q)' => QueueHas(1, q)
    BY <2>1, <2>6 DEF ReaderHas, QueueHas, Whole
  <2>8. \A s \in Readers, q \in Requests : s # r => (ReaderHas(s, q)' <=> ReaderHas(s, q))
    BY <2>1, <2>6 DEF ReaderHas, Whole
  <2>9. \A q \in Requests : /\ Handled(q)' <=> Handled(q)
                            /\ \A w \in Workers : WorkerHas(w, q)' <=> WorkerHas(w, q)
    BY <2>1 DEF WorkerHas, Handled
  <2>10. ArrivedFirst'
    BY <2>1, <2>3, <2>4, <2>5, <2>7, <2>8, <2>9 DEF OnceInv, ArrivedFirst
  <2>11. InOnePlace'
    BY <2>3, <2>4, <2>5, <2>7, <2>8, <2>9 DEF OnceInv, InOnePlace
  <2>12. HandledOnce'
    BY <2>3, <2>4, <2>5, <2>6, <2>7, <2>8, <2>9 DEF OnceInv, HandledOnce
  <2>13. QED BY <2>10, <2>11, <2>12 DEF OnceInv
<1>8. ASSUME NEW r \in Readers, Handle(r) PROVE OnceInv'
  <2>1. /\ UNCHANGED <<content, m_queue, rbuf, wpc, wreq, arrived>>
        /\ rpc[r] = "handle" /\ rpc' = [rpc EXCEPT ![r] = "release"]
    BY <1>8 DEF Handle, queueVars, workerVars
  <2>2. rpc'[r] = "release" /\ \A s \in Readers : s # r => rpc'[s] = rpc[s]
    BY <1>0, <2>1 DEF ThreadTypeOK
  <2>3. /\ Slots' = Slots
        /\ \A w \in Workers, q \in Requests : WorkerHas(w, q)' <=> WorkerHas(w, q)
        /\ \A i \in Slots, q \in Requests : QueueHas(i, q)' <=> QueueHas(i, q)
        /\ \A s \in Readers, q \in Requests : ReaderHas(s, q)' <=> ReaderHas(s, q)
    BY <2>1 DEF Slots, WorkerHas, QueueHas, ReaderHas, Whole
  <2>4. \A q \in Requests : Handled(q)' <=> Handled(q) \/ ReaderHas(r, q)
    <3> DEFINE pieces == content[rbuf[r]]
    <3>1. rbuf[r] # NoBuffer /\ rbuf[r] \in Buffers
      BY <1>0, <2>1 DEF HandInv, ThreadTypeOK
    <3>2. CASE Len(pieces) = 2
      <4>1. handled' = Append(handled, pieces[2])
        BY <1>8, <3>2 DEF Handle
      <4>2. pieces[2] \in Requests \union {Header} /\ handled \in Seq(Requests \union {Header})
        BY <1>0, <3>1, <3>2 DEF PacketInv, Whole, RequestTypeOK
      <4>3. \A q : Occurs(q, handled') <=> Occurs(q, handled) \/ pieces[2] = q
        BY <4>1, <4>2, OccursAppend
      <4>4. QED BY <3>1, <3>2, <4>3 DEF Handled, ReaderHas, Whole
    <3>3. CASE Len(pieces) # 2
      BY <1>8, <3>3 DEF Handle, Handled, ReaderHas, Whole
    <3>4. QED BY <3>2, <3>3
  <2>5. ArrivedFirst'
    BY <2>1, <2>3, <2>4 DEF OnceInv, ArrivedFirst
  <2>6. InOnePlace'
    BY <2>3 DEF OnceInv, InOnePlace
  <2>7. HandledOnce'
    BY <2>2, <2>3, <2>4 DEF OnceInv, InOnePlace, HandledOnce
  <2>8. QED BY <2>5, <2>6, <2>7 DEF OnceInv
<1>9. ASSUME NEW r \in Readers, ReleasePacket(r) PROVE OnceInv'
  <2>1. /\ UNCHANGED <<content, m_queue, wpc, wreq, arrived, handled>>
        /\ rbuf' = [rbuf EXCEPT ![r] = NoBuffer] /\ rpc' = [rpc EXCEPT ![r] = "test"]
    BY <1>9 DEF ReleasePacket, Release, workerVars
  <2>2. \A s \in Readers : IF s = r THEN rbuf'[s] = NoBuffer
                           ELSE rbuf'[s] = rbuf[s] /\ rpc'[s] = rpc[s]
    BY <1>0, <2>1 DEF ThreadTypeOK
  <2>3. QED BY <2>1, <2>2, OnceKept DEF WorkerHas, QueueHas, ReaderHas, Whole, Slots
<1>10. QED
  BY <1>1, <1>2, <1>3, <1>4, <1>5, <1>6, <1>7, <1>8, <1>9, StepCases

------------------------------------------------------------------------
\* What the three variables of the channel say of the places a request can be in.
Taken == InReaders \union ToSet(handled)

LEMMA ElementOccurs ==
    ASSUME NEW R, NEW s \in Seq(R), NEW q
    PROVE  q \in ToSet(s) <=> Occurs(q, s)
BY DEF ToSet, Occurs

LEMMA PendingIs ==
    ASSUME QueueInv, PacketInv
    PROVE  /\ QueuedRequests \in Seq(Requests)
           /\ \A q : q \in ToSet(QueuedRequests) <=> \E i \in Slots : QueueHas(i, q)
<1>1. m_queue \in Seq(Buffers) /\ Len(m_queue) \in Nat
  BY DEF QueueInv, TypeOK, QueueTypeOK
<1>2. HoldRequests(m_queue, content, Requests)
  BY <1>1 DEF HoldRequests, PacketInv, Whole
<1>3. /\ QueuedRequests \in Seq(Requests)
      /\ \A q : Occurs(q, QueuedRequests) <=> Among(q, m_queue, content, Len(m_queue))
  BY <1>1, <1>2, OfType DEF QueuedRequests
<1>4. \A q : Among(q, m_queue, content, Len(m_queue)) <=> \E i \in Slots : QueueHas(i, q)
  BY DEF Among, QueueHas, Whole, Slots
<1>5. QED BY <1>3, <1>4, ElementOccurs

LEMMA TakenIs ==
    ASSUME QueueInv
    PROVE  \A q : /\ q \in InReaders <=> \E r \in Readers : ReaderHas(r, q)
                  /\ q \in ToSet(handled) <=> Handled(q)
<1>1. \A q : q \in InReaders <=> \E r \in Readers : ReaderHas(r, q)
  BY DEF InReaders, ReaderHas
<1>2. handled \in Seq(Requests \union {Header})
  BY DEF QueueInv, TypeOK, RequestTypeOK
<1>3. QED BY <1>1, <1>2, ElementOccurs DEF Handled

LEMMA PendingKept ==
    ASSUME QueueInv, m_queue' = m_queue,
           \A i \in Slots : content'[m_queue[i]] = content[m_queue[i]]
    PROVE  QueuedRequests' = QueuedRequests
<1>1. Len(m_queue) \in Nat
  BY DEF QueueInv, TypeOK, QueueTypeOK
<1>2. QED BY <1>1, OfSame DEF QueuedRequests, Slots

LEMMA ChannelInit == Init => Channel!Init
<1> SUFFICES ASSUME Init PROVE Channel!Init
  OBVIOUS
<1>1. m_queue = <<>> /\ handled = <<>> /\ \A r \in Readers : rbuf[r] = NoBuffer
  BY DEF Init, InitQueue
<1>2. QueuedRequests = <<>>
  BY <1>1, OfNone DEF QueuedRequests
<1>3. InReaders = {} /\ ToSet(handled) = {}
  BY <1>1 DEF InReaders, ToSet
<1>4. QED BY <1>1, <1>2, <1>3 DEF Channel!Init

LEMMA ChannelStep ==
    ASSUME QueueInv, OwnInv, PacketInv, OnceInv, [Next]_vars
    PROVE  [Channel!Next]_<<QueuedRequests, InReaders \union ToSet(handled), handled>>
<1> DEFINE Stutter == /\ QueuedRequests' = QueuedRequests
                      /\ Taken' = Taken /\ handled' = handled
           Step == Stutter \/ Channel!Next
<1> SUFFICES Step
  BY DEF Taken
<1>0. QueueTypeOK /\ ThreadTypeOK /\ RequestTypeOK /\ HandInv
  BY DEF QueueInv, TypeOK
<1>1. ASSUME Quiet PROVE Step
  <2>1. QueuedRequests' = QueuedRequests
    BY <1>1 DEF Quiet, QueuedRequests
  <2>2. InReaders' = InReaders
    BY <1>1 DEF Quiet, InReaders, Whole
  <2>3. QED BY <1>1, <2>1, <2>2 DEF Quiet, Taken
<1>2. ASSUME NEW w \in Workers, NEW p \in Requests, Receive(w, p) PROVE Step
  <2>1. UNCHANGED <<content, m_queue, rbuf, handled>>
    BY <1>2 DEF Receive, queueVars, readerVars
  <2>2. QED BY <2>1 DEF QueuedRequests, Taken, InReaders, Whole
<1>3. ASSUME NEW w \in Workers, RefuseRequest(w) PROVE Step
  <2>1. UNCHANGED <<content, m_queue, rbuf, handled>>
    BY <1>3 DEF RefuseRequest, queueVars, readerVars
  <2>2. QED BY <2>1 DEF QueuedRequests, Taken, InReaders, Whole
<1>4. ASSUME NEW w \in Workers, NEW b \in m_freeList, AllocInto(w, b) PROVE Step
  <2>1. /\ UNCHANGED <<m_queue, rbuf, handled>>
        /\ content' = [content EXCEPT ![b] = <<>>] /\ m_pool = "live"
    BY <1>4 DEF AllocInto, AllocWritePacket, CanAlloc, readerVars
  <2>2. \A i \in Slots : content'[m_queue[i]] = content[m_queue[i]]
    <3>1. \A i \in Slots : m_queue[i] \in Buffers /\ m_queue[i] # b
      BY <1>0, <2>1 DEF QueueTypeOK, Slots, OwnInv, FreeApart
    <3>2. QED BY <1>0, <2>1, <3>1 DEF RequestTypeOK
  <2>3. \A r \in Readers : rbuf[r] # NoBuffer => content'[rbuf[r]] = content[rbuf[r]]
    <3>1. \A r \in Readers : rbuf[r] # NoBuffer => rbuf[r] \in Buffers /\ rbuf[r] # b
      BY <1>0, <2>1 DEF ThreadTypeOK, OwnInv, FreeApart
    <3>2. QED BY <1>0, <2>1, <3>1 DEF RequestTypeOK
  <2>4. QueuedRequests' = QueuedRequests
    BY <2>1, <2>2, PendingKept
  <2>5. InReaders' = InReaders
    BY <2>1, <2>3 DEF InReaders, Whole
  <2>6. QED BY <2>1, <2>4, <2>5 DEF Taken
<1>5. ASSUME NEW w \in Workers, WriteBoth(w) PROVE Step
  <2> DEFINE b == wbuf[w]
  <2>1. /\ UNCHANGED <<m_queue, rbuf, handled>>
        /\ \E p : content' = [content EXCEPT ![b] = p]
        /\ wpc[w] = "write"
    BY <1>5 DEF WriteBoth, readerVars
  <2>2. \A i \in Slots : content'[m_queue[i]] = content[m_queue[i]]
    <3>1. \A i \in Slots : m_queue[i] \in Buffers /\ m_queue[i] # b
      BY <1>0 DEF QueueTypeOK, Slots, OwnInv, QueueApart
    <3>2. QED BY <1>0, <2>1, <3>1 DEF RequestTypeOK
  <2>3. \A r \in Readers : rbuf[r] # NoBuffer => content'[rbuf[r]] = content[rbuf[r]]
    <3>1. \A r \in Readers : rbuf[r] # NoBuffer => rbuf[r] \in Buffers /\ rbuf[r] # b
      BY <1>0, <2>1 DEF ThreadTypeOK, OwnInv, HandsApart
    <3>2. QED BY <1>0, <2>1, <3>1 DEF RequestTypeOK
  <2>4. QueuedRequests' = QueuedRequests
    BY <2>1, <2>2, PendingKept
  <2>5. InReaders' = InReaders
    BY <2>1, <2>3 DEF InReaders, Whole
  <2>6. QED BY <2>1, <2>4, <2>5 DEF Taken
<1>6. ASSUME NEW w \in Workers, PushPacket(w) PROVE Step
  <2> DEFINE b == wbuf[w]
             q == content[b][2]
  <2>1. /\ UNCHANGED <<content, rbuf, handled>> /\ m_queue' = Append(m_queue, b)
        /\ wpc[w] = "push"
    BY <1>6 DEF PushPacket, Push, readerVars
  <2>2. m_queue \in Seq(Buffers) /\ b \in Buffers
    BY <1>0, <2>1 DEF QueueTypeOK, HandInv, ThreadTypeOK
  <2>3. InReaders' = InReaders
    BY <2>1 DEF InReaders, Whole
  <2>4. QueuedRequests' = IF Whole(b) THEN Append(QueuedRequests, q) ELSE QueuedRequests
    BY <2>1, <2>2, OfAppend DEF QueuedRequests, Whole
  <2>5. CASE Whole(b)
    <3>1. q \in Requests /\ WorkerHas(w, q)
      BY <2>1, <2>2, <2>5 DEF PacketInv, WorkerHas
    <3> HIDE DEF q
    <3>2. q \notin Taken /\ q \notin ToSet(QueuedRequests)
      BY <3>1, PendingIs, TakenIs DEF Taken, OnceInv, InOnePlace, HandledOnce
    <3>3. Channel!Accept(q)
      <4>1. q \notin (InReaders \union ToSet(handled)) \union Channel!ToSet(QueuedRequests)
        BY <3>2 DEF Taken, ToSet, Channel!ToSet
      <4>2. QueuedRequests' = Append(QueuedRequests, q)
        BY <2>4, <2>5, Zenon
      <4>3. UNCHANGED <<InReaders \union ToSet(handled), handled>>
        BY <2>1, <2>3
      <4>4. QED BY <4>1, <4>2, <4>3, Zenon DEF Channel!Accept
    <3>4. QED BY <3>1, <3>3 DEF Channel!Next
  <2>6. CASE ~Whole(b)
    BY <2>1, <2>3, <2>4, <2>6 DEF Taken
  <2>7. QED BY <2>5, <2>6
<1>7. ASSUME NEW r \in Readers, Pop(r), m_queue # <<>> PROVE Step
  <2> DEFINE b == Head(m_queue)
             q == content[b][2]
  <2>1. /\ UNCHANGED <<content, handled>> /\ m_queue' = Tail(m_queue)
        /\ rbuf' = [rbuf EXCEPT ![r] = b] /\ rbuf[r] = NoBuffer
    BY <1>0, <1>7 DEF Pop, PopLocked, workerVars, HandInv
  <2>2. /\ m_queue \in Seq(Buffers) /\ b \in Buffers
        /\ 1 \in Slots /\ m_queue[1] = b
    BY <1>0, <1>7 DEF QueueTypeOK, Slots
  <2>3. HoldRequests(m_queue, content, Requests)
    BY <2>2 DEF HoldRequests, PacketInv, Whole
  <2>4. QueuedRequests = (IF Whole(b) THEN <<q>> ELSE <<>>) \o QueuedRequests'
    BY <1>7, <2>1, <2>2, <2>3, OfTail DEF QueuedRequests, Whole
  <2>5. QueuedRequests' \in Seq(Requests)
    <3>1. m_queue' \in Seq(Buffers)
      BY <1>7, <2>1, <2>2, HeadTailProperties
    <3>2. HoldRequests(m_queue', content', Requests) /\ Len(m_queue') \in Nat
      BY <2>1, <3>1 DEF HoldRequests, PacketInv, Whole
    <3>3. QED BY <3>2, OfType DEF QueuedRequests
  <2>6. rbuf'[r] = b /\ \A s \in Readers : s # r => rbuf'[s] = rbuf[s]
    BY <1>0, <2>1 DEF ThreadTypeOK
  <2>7. CASE Whole(b)
    <3>1. q \in Requests /\ QueueHas(1, q)
      BY <2>2, <2>7 DEF PacketInv, QueueHas
    <3>2. InReaders' = InReaders \union {q}
      BY <2>1, <2>2, <2>6, <2>7, PoolAssumption DEF InReaders, Whole
    <3> HIDE DEF q
    <3>3. q \notin Taken
      BY <2>2, <3>1, TakenIs DEF Taken, OnceInv, InOnePlace, HandledOnce
    <3>4. /\ QueuedRequests # <<>> /\ Head(QueuedRequests) = q
          /\ Tail(QueuedRequests) = QueuedRequests'
      BY <2>4, <2>5, <2>7, <3>1
    <3>5. Channel!Take
      BY <2>1, <3>2, <3>3, <3>4 DEF Channel!Take, Taken
    <3>6. QED BY <3>5 DEF Channel!Next
  <2>8. CASE ~Whole(b)
    <3>1. InReaders' = InReaders
      BY <2>1, <2>6, <2>8 DEF InReaders, Whole
    <3>2. QueuedRequests = QueuedRequests'
      BY <2>4, <2>5, <2>8
    <3>3. QED BY <2>1, <3>1, <3>2 DEF Taken
  <2>9. QED BY <2>7, <2>8
<1>8. ASSUME NEW r \in Readers, Handle(r) PROVE Step
  <2> DEFINE q == content[rbuf[r]][2]
  <2>1. UNCHANGED <<content, m_queue, rbuf>> /\ rpc[r] = "handle"
    BY <1>8 DEF Handle, queueVars
  <2>2. rbuf[r] # NoBuffer /\ rbuf[r] \in Buffers
    BY <1>0, <2>1 DEF HandInv, ThreadTypeOK
  <2>3. QueuedRequests' = QueuedRequests /\ InReaders' = InReaders
    BY <2>1 DEF QueuedRequests, InReaders, Whole
  <2>4. CASE Whole(rbuf[r])
    <3>1. handled' = Append(handled, q)
      BY <1>8, <2>4 DEF Handle, Whole
    <3>2. q \in Requests /\ ReaderHas(r, q)
      BY <2>2, <2>4 DEF PacketInv, ReaderHas
    <3> HIDE DEF q
    <3>3. q \in InReaders /\ q \notin ToSet(handled)
      BY <2>1, <3>2, TakenIs DEF OnceInv, HandledOnce
    <3>4. ToSet(handled') = ToSet(handled) \union {q}
      <4>1. handled \in Seq(Requests \union {Header}) /\ q \in Requests \union {Header}
        BY <1>0, <3>2 DEF RequestTypeOK
      <4>2. /\ handled' \in Seq(Requests \union {Header})
            /\ \A p : Occurs(p, handled') <=> Occurs(p, handled) \/ q = p
        BY <3>1, <4>1, OccursAppend, Zenon
      <4>3. \A p : p \in ToSet(handled') <=> p \in ToSet(handled) \/ p = q
        BY <4>1, <4>2, ElementOccurs
      <4>4. QED BY <4>3
    <3>5. Channel!Answer(q)
      <4>1. q \in (InReaders \union ToSet(handled)) \ Channel!ToSet(handled)
        BY <3>3 DEF ToSet, Channel!ToSet
      <4>2. (InReaders \union ToSet(handled))' = InReaders \union ToSet(handled)
        BY <2>3, <3>3, <3>4
      <4>3. QED BY <2>3, <3>1, <4>1, <4>2, Zenon DEF Channel!Answer
    <3>6. QED BY <3>2, <3>5 DEF Channel!Next
  <2>5. CASE ~Whole(rbuf[r])
    <3>1. handled' = handled
      BY <1>8, <2>5 DEF Handle, Whole
    <3>2. QED BY <2>3, <3>1 DEF Taken
  <2>6. QED BY <2>4, <2>5
<1>9. ASSUME NEW r \in Readers, ReleasePacket(r) PROVE Step
  <2>1. /\ UNCHANGED <<content, m_queue, handled>> /\ rpc[r] = "free"
        /\ rbuf' = [rbuf EXCEPT ![r] = NoBuffer]
    BY <1>9 DEF ReleasePacket, Release, workerVars
  <2>2. QueuedRequests' = QueuedRequests
    BY <2>1 DEF QueuedRequests
  <2>3. rbuf'[r] = NoBuffer /\ \A s \in Readers : s # r => rbuf'[s] = rbuf[s]
    BY <1>0, <2>1 DEF ThreadTypeOK
  <2>4. InReaders' \subseteq InReaders
    BY <2>1, <2>3 DEF InReaders, Whole
  <2>5. ASSUME NEW q \in InReaders, q \notin InReaders' PROVE q \in ToSet(handled)
    <3>1. PICK s \in Readers : ReaderHas(s, q)
      BY <2>5, TakenIs
    <3>2. s = r
      BY <2>1, <2>3, <2>5, <3>1 DEF InReaders, ReaderHas, Whole
    <3>3. q \in Requests
      BY <1>0, <3>1 DEF ReaderHas, PacketInv, ThreadTypeOK
    <3>4. QED BY <2>1, <3>1, <3>2, <3>3, TakenIs DEF OnceInv, HandledOnce
  <2>6. Taken' = Taken
    BY <2>1, <2>4, <2>5 DEF Taken
  <2>7. QED BY <2>1, <2>2, <2>6
<1>10. QED
  BY <1>1, <1>2, <1>3, <1>4, <1>5, <1>6, <1>7, <1>8, <1>9, StepCases

\* OnReceived, the PackageQueue and ProcessMsg together are a channel for requests: they
\* are popped in the order their packets were pushed, each by one thread, and each is
\* handled at most once, by the thread that popped it, however workers and readers
\* interleave, also when Stop terminates a reader and when a write did not fit.
THEOREM ServiceIsChannel == Spec => ChannelSpec
<1> DEFINE Inv == QueueInv /\ OwnInv /\ PacketInv /\ OnceInv
<1>1. Init => Inv
  BY QueueInvInit, OwnInvInit, PacketInvInit, OnceInvInit
<1>2. Inv /\ [Next]_vars => Inv'
  BY QueueInvStep, OwnInvStep, PacketInvStep, OnceInvStep
<1>3. Inv /\ [Next]_vars
        
         => [Channel!Next]_<<QueuedRequests, InReaders \union ToSet(handled), handled>>
  BY ChannelStep
<1>4. QED BY <1>1, <1>2, <1>3, ChannelInit, PTL DEF Spec, ChannelSpec, Channel!Spec
=============================================================================
