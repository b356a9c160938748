----------------------------- MODULE HttpService -----------------------------
(***************************************************************************)
(* The HTTP service (Netlib/HttpServiceImplementer.cpp) around its packet  *)
(* queue.  The IOCP workers call OnReceived for every request and queue a  *)
(* packet of two pieces, the protocol header and the request; the service's *)
(* own threads run ProcessMsg, which pops packets and hands them on; main  *)
(* calls Start and Stop, and ends with the destructor.                     *)
(*                                                                         *)
(* Two of Stop's waits are bounded: StopNetService gives the clients 600 ms *)
(* and Thread::Join gives each thread 200 ms before TerminateThread.  Slow *)
(* and LateWorkers say which of them may run out.  TestServer::StartServer *)
(* and Client::StartClient drive the queue the same way.                   *)
(***************************************************************************)
EXTENDS PackageQueue

CONSTANTS
    Requests,    \* the requests that arrive, one element of Pieces each
    Header,      \* the HttpProtocolHeader piece
    Workers,     \* the IOCP workers
    Readers,     \* the threads Start asks for
    Slow,        \* may a handler take longer than Stop waits for its thread?
    LateWorkers, \* may a worker be in OnReceived when StopNetService gives up?
    ThreadsFail  \* may new and CreateThread fail?

ASSUME HttpAssumption ==
    /\ Requests \subseteq Pieces /\ Header \in Pieces \ Requests
    /\ Workers \cap Readers = {}
    /\ IsFiniteSet(Readers) /\ Nobody \notin Readers
    /\ {Slow, LateWorkers, ThreadsFail} \subseteq BOOLEAN

VARIABLES
    mStop,
    mThreads,  \* the threads Start has started and Stop has not deleted
    mainPC,    \* main's place in Start, Stop and the destructor
    listening, \* StartNetService succeeded, StopNetService has not returned
    started,   \* what Start returned: "none", "ok", "error"
    wpc,       \* a worker: "idle", "write" or "push"
    wbuf,      \* the buffer of its PacketWrite
    wreq,      \* the request it was called with
    rpc,       \* a reader's place in ProcessMsg
    rbuf,      \* m_buf of its PacketRead
    arrived,   \* the requests OnReceived was called for
    refused,   \* those OnReceived answered -1, which closes the connection
    handled    \* the requests whose handler was called, in order

controlVars == <<mStop, mThreads, mainPC, listening, started>>
workerVars == <<wpc, wbuf, wreq, arrived, refused>>
readerVars == <<rpc, rbuf, handled>>
vars == <<queueVars, controlVars, workerVars, readerVars>>

Running(r) == rpc[r] \notin {"none", "exit", "killed"}

-----------------------------------------------------------------------------
(* OnReceived, on an IOCP worker. *)

\* The queue is full, or its pool is gone: -1.
RefuseRequest(w) ==
    /\ m_poolLock = Nobody /\ ~CanAlloc
    /\ refused' = refused \union {wreq[w]}
    /\ wpc' = [wpc EXCEPT ![w] = "idle"]
    /\ UNCHANGED <<queueVars, controlVars, readerVars, wbuf, wreq, arrived>>

Receive(w, q) ==
    /\ listening /\ wpc[w] = "idle" /\ q \notin arrived
    /\ arrived' = arrived \union {q}
    /\ wreq' = [wreq EXCEPT ![w] = q]
    /\ wpc' = [wpc EXCEPT ![w] = "alloc"]
    /\ UNCHANGED <<queueVars, controlVars, readerVars, wbuf, refused>>

Alloc(w) ==
    /\ wpc[w] = "alloc"
    /\ \/ RefuseRequest(w)
       \/ \E b \in m_freeList :
             /\ AllocWritePacket(b)
             /\ wbuf' = [wbuf EXCEPT ![w] = b]
             /\ wpc' = [wpc EXCEPT ![w] = "write"]
             /\ UNCHANGED <<controlVars, readerVars, wreq, arrived, refused>>

\* Both Write calls; what they return is not looked at.
WriteBoth(w) ==
    /\ wpc[w] = "write"
    /\ content' = [content EXCEPT ![wbuf[w]] = Write(Write(@, Header), wreq[w])]
    /\ wpc' = [wpc EXCEPT ![w] = "push"]
    /\ UNCHANGED <<m_pool, m_freeList, m_freeCount, m_queue, m_sem, m_poolLock,
                   controlVars, readerVars, wbuf, wreq, arrived, refused>>

PushPacket(w) ==
    /\ wpc[w] = "push"
    /\ Push(wbuf[w])
    /\ wbuf' = [wbuf EXCEPT ![w] = NoBuffer]
    /\ wpc' = [wpc EXCEPT ![w] = "idle"]
    /\ UNCHANGED <<controlVars, readerVars, wreq, arrived, refused>>

-----------------------------------------------------------------------------
(* ProcessMsg, on one of the service's threads. *)

\* while (!mStop)
LoopTest(r) ==
    /\ rpc[r] = "test"
    /\ rpc' = [rpc EXCEPT ![r] = IF mStop THEN "exit" ELSE "wait"]
    /\ UNCHANGED <<queueVars, controlVars, workerVars, rbuf, handled>>

\* Pop(pr, 100) first waits for the semaphore: it takes one, or the time is up.
WaitToken(r) ==
    /\ rpc[r] = "wait"
    /\ SemWait
    /\ rpc' = [rpc EXCEPT ![r] = "lock"]
    /\ UNCHANGED <<controlVars, workerVars, rbuf, handled>>

WaitTimeout(r) ==
    /\ rpc[r] = "wait" /\ m_sem = 0
    /\ rpc' = [rpc EXCEPT ![r] = "test"]
    /\ UNCHANGED <<queueVars, controlVars, workerVars, rbuf, handled>>

LockToPop(r) ==
    /\ rpc[r] = "lock"
    /\ EnterLock(r)
    /\ rpc' = [rpc EXCEPT ![r] = "pop"]
    /\ UNCHANGED <<controlVars, workerVars, rbuf, handled>>

Pop(r) ==
    /\ rpc[r] = "pop"
    /\ PopLocked(r)
    /\ rbuf' = [rbuf EXCEPT ![r] = IF m_queue = <<>> THEN NoBuffer ELSE Head(m_queue)]
    /\ rpc' = [rpc EXCEPT ![r] = IF m_queue = <<>> THEN "test" ELSE "handle"]
    /\ UNCHANGED <<controlVars, workerVars, handled>>

\* OnHttpPacket returns at once if the packet holds no request; the request's
\* handler is called otherwise (HttpMessages has what lies between).
Handle(r) ==
    /\ rpc[r] = "handle"
    /\ LET pieces == content[rbuf[r]] IN
          handled' = IF Len(pieces) = 2 THEN Append(handled, pieces[2]) ELSE handled
    /\ rpc' = [rpc EXCEPT ![r] = "release"]
    /\ UNCHANGED <<queueVars, controlVars, workerVars, rbuf>>

\* ~PacketRead at the end of the loop's body.
LockToRelease(r) ==
    /\ rpc[r] = "release"
    /\ EnterLock(r)
    /\ rpc' = [rpc EXCEPT ![r] = "free"]
    /\ UNCHANGED <<controlVars, workerVars, rbuf, handled>>

ReleasePacket(r) ==
    /\ rpc[r] = "free"
    /\ Release(r, rbuf[r])
    /\ rbuf' = [rbuf EXCEPT ![r] = NoBuffer]
    /\ rpc' = [rpc EXCEPT ![r] = "test"]
    /\ UNCHANGED <<controlVars, workerVars, handled>>

-----------------------------------------------------------------------------
(* Start, Stop and the destructor, on main. *)

MainTo(to) == mainPC' = to /\ UNCHANGED <<workerVars, handled>>

InitQueueOK ==
    /\ mainPC = "init"
    /\ InitPool
    /\ MainTo("threads")
    /\ UNCHANGED <<mStop, mThreads, listening, started, rpc, rbuf>>

\* No semaphore or no memory: Init returns 1, and Start stops again.
InitQueueFails ==
    /\ mainPC = "init"
    /\ Uninit
    /\ started' = "error"
    /\ MainTo("stop")
    /\ UNCHANGED <<mStop, mThreads, listening, rpc, rbuf>>

\* The loop that starts the threads.  A Thread that could not be allocated is missing
\* from mThreads: Start breaks out then, and its ret is still 0.  Thread::Start says
\* true also when CreateThread failed: such a thread counts, but never runs.
StartThreads ==
    /\ mainPC = "threads"
    /\ \E made \in SUBSET Readers : \E good \in SUBSET made :
          /\ ThreadsFail \/ good = Readers
          /\ mThreads' = made
          /\ rpc' = [r \in Readers |-> IF r \in good THEN "test" ELSE "none"]
          /\ IF made = Readers
             THEN started' = started /\ MainTo("listen")
             ELSE started' = "ok" /\ MainTo("running")
    /\ UNCHANGED <<queueVars, mStop, listening, rbuf>>

StartNetService ==
    /\ mainPC = "listen"
    /\ \/ listening' = TRUE /\ started' = "ok" /\ MainTo("running")
       \/ listening' = FALSE /\ started' = "error" /\ MainTo("stop")
    /\ UNCHANGED <<queueVars, mStop, mThreads, rpc, rbuf>>

\* The application's own call, or the destructor's.
CallStop ==
    /\ mainPC = "running"
    /\ MainTo("stop")
    /\ UNCHANGED <<queueVars, mStop, mThreads, listening, started, rpc, rbuf>>

SetStop ==
    /\ mainPC = "stop"
    /\ mStop' = TRUE
    /\ MainTo("stopNet")
    /\ UNCHANGED <<queueVars, mThreads, listening, started, rpc, rbuf>>

\* StopNetService closes every client and waits until the workers have left
\* them, or 600 ms have gone by.
StopNetService ==
    /\ mainPC = "stopNet"
    /\ LateWorkers \/ \A w \in Workers : wpc[w] = "idle"
    /\ listening' = FALSE
    /\ MainTo("join")
    /\ UNCHANGED <<queueVars, mStop, mThreads, started, rpc, rbuf>>

JoinForgetsToKill(r) ==
    /\ mainPC = "join" /\ r \in mThreads
    /\ mThreads' = mThreads \ {r}
    /\ MainTo(mainPC)
    /\ UNCHANGED <<queueVars, mStop, listening, started, rpc, rbuf>>
\* Join(200) and delete, one thread after the other: a thread that has not left
\* ProcessMsg by then is terminated wherever it is.
JoinThread(r) ==
    /\ mainPC = "join" /\ r \in mThreads
    /\ Slow \/ ~Running(r)
    /\ rpc' = [rpc EXCEPT ![r] = IF Running(r) THEN "killed" ELSE @]
    /\ mThreads' = mThreads \ {r}
    /\ MainTo(mainPC)
    /\ UNCHANGED <<queueVars, mStop, listening, started, rbuf>>

\* The threads are gone; mRoutes is cleared.
StopReturns ==
    /\ mainPC = "join" /\ mThreads = {}
    /\ MainTo("destroy")
    /\ UNCHANGED <<queueVars, mStop, mThreads, listening, started, rpc, rbuf>>

\* ~HttpServiceImplementer: Stop returns at once, ~PackageQueue calls Uninit.
Destroy ==
    /\ mainPC = "destroy"
    /\ Uninit
    /\ MainTo("gone")
    /\ UNCHANGED <<mStop, mThreads, listening, started, rpc, rbuf>>

-----------------------------------------------------------------------------
Init ==
    /\ InitQueue
    /\ mStop = FALSE /\ mThreads = {} /\ mainPC = "init"
    /\ listening = FALSE /\ started = "none"
    /\ wpc = [w \in Workers |-> "idle"]
    /\ wbuf = [w \in Workers |-> NoBuffer]
    /\ wreq \in [Workers -> {Header}]
    /\ rpc = [r \in Readers |-> "none"]
    /\ rbuf = [r \in Readers |-> NoBuffer]
    /\ arrived = {} /\ refused = {} /\ handled = <<>>

WorkerStep(w) == Alloc(w) \/ WriteBoth(w) \/ PushPacket(w)
ReaderStep(r) == \/ LoopTest(r) \/ WaitToken(r) \/ WaitTimeout(r) \/ LockToPop(r) \/ Pop(r)
                 \/ Handle(r) \/ LockToRelease(r) \/ ReleasePacket(r)
MainStep == \/ InitQueueOK \/ InitQueueFails \/ StartThreads \/ StartNetService
            \/ SetStop \/ StopNetService \/ (\E r \in Readers : JoinThread(r))
            \/ StopReturns \/ Destroy

Next ==
    \/ \E w \in Workers : WorkerStep(w) \/ \E q \in Requests : Receive(w, q)
    \/ \E r \in Readers : ReaderStep(r)
    \/ MainStep
    \/ CallStop

Spec == Init /\ [][Next]_vars

(* Every thread is scheduled and every critical section is given to a thread *)
(* that waits for it long enough: a Windows critical section is not fair, but *)
(* no thread here asks for it again without leaving the processor first.     *)
Fairness ==
    /\ \A w \in Workers : SF_vars(WorkerStep(w))
    /\ \A r \in Readers : SF_vars(ReaderStep(r))
    /\ WF_vars(MainStep)
FairSpec == Spec /\ Fairness

-----------------------------------------------------------------------------
(* Properties. *)

QueueTypeOK ==
    /\ m_pool \in {"none", "live", "freed"}
    /\ m_freeList \subseteq Buffers /\ m_freeCount \in Int
    /\ m_queue \in Seq(Buffers) /\ m_sem \in Nat
    /\ m_poolLock \in Readers \union {Nobody}
ControlTypeOK ==
    /\ mStop \in BOOLEAN /\ listening \in BOOLEAN /\ mThreads \subseteq Readers
    /\ mainPC \in {"init", "threads", "listen", "running", "stop", "stopNet", "join",
                   "destroy", "gone"}
    /\ started \in {"none", "ok", "error"}
ThreadTypeOK ==
    /\ wpc \in [Workers -> {"idle", "alloc", "write", "push"}]
    /\ wbuf \in [Workers -> Buffers \union {NoBuffer}]
    /\ wreq \in [Workers -> Requests \union {Header}]
    /\ rpc \in [Readers -> {"none", "test", "wait", "lock", "pop", "handle", "release",
                            "free", "exit", "killed"}]
    /\ rbuf \in [Readers -> Buffers \union {NoBuffer}]
RequestTypeOK ==
    /\ arrived \subseteq Requests /\ refused \subseteq Requests
    /\ content \in [Buffers -> Seq(Requests \union {Header})]
    /\ handled \in Seq(Requests \union {Header})

\* Every variable has its type.
TypeOK == QueueTypeOK /\ ControlTypeOK /\ ThreadTypeOK /\ RequestTypeOK

(* No buffer is lost and none is in two places: each is on the free list, in *)
(* the queue, or in the hand of one worker or one reader, and m_freeCount    *)
(* says how many are on the free list.  A buffer freed twice, or one OnReceived *)
(* loses, breaks it; after enough requests the service would refuse them all. *)
InHand == {w \in Workers : wbuf[w] # NoBuffer} \union {r \in Readers : rbuf[r] # NoBuffer}
HeldBy(t) == IF t \in Workers THEN wbuf[t] ELSE rbuf[t]
Held == {HeldBy(t) : t \in InHand}
PoolConserved ==
    m_pool = "live" =>
        /\ m_freeList \union ToSet(m_queue) \union Held = Buffers
        /\ m_freeList \intersect (ToSet(m_queue) \union Held) = {}
        /\ ToSet(m_queue) \intersect Held = {}
        /\ IsInjective(m_queue)
        /\ \A t, u \in InHand : HeldBy(t) = HeldBy(u) => t = u
        /\ m_freeCount = Cardinality(m_freeList)

(* A packet in the queue always has a count of the semaphore for it, in the  *)
(* semaphore or with a reader on its way to the queue, except one for each   *)
(* thread Stop killed on that way: nothing queued is left behind without a   *)
(* wake-up, and Pop never wakes up to an empty queue.                        *)
TokensCoverQueue ==
    LET claimed == m_sem + Cardinality({r \in Readers : rpc[r] \in {"lock", "pop"}})
        lost == Cardinality({r \in Readers : rpc[r] = "killed" /\ rbuf[r] = NoBuffer})
    IN  claimed <= Len(m_queue) /\ Len(m_queue) <= claimed + lost

(* Once the pool is freed by the destructor no worker and no reader still    *)
(* writes to, queues or reads one of its buffers (PackageQueue.cpp:87).      *)
NoBufferAfterFree ==
    m_pool = "freed" => /\ \A w \in Workers : wpc[w] = "idle"
                        /\ \A r \in Readers : ~Running(r)

(* The requests go through the service as through a channel: in the order    *)
(* they were queued, each to one thread, each handled once.                  *)
Whole(b) == Len(content[b]) = 2
\* The requests in the whole packets of a queue, oldest first.
RequestsOf(queue, packets) ==
    LET upTo[i \in 0..Len(queue)] ==
            IF i = 0 THEN <<>>
            ELSE IF Len(packets[queue[i]]) = 2 THEN Append(upTo[i - 1], packets[queue[i]][2])
            ELSE upTo[i - 1]
    IN  upTo[Len(queue)]
QueuedRequests == RequestsOf(m_queue, content)
InReaders == {content[rbuf[r]][2] : r \in {s \in Readers : rbuf[s] # NoBuffer /\ Whole(rbuf[s])}}
Channel == INSTANCE RequestChannel WITH
    pending <- QueuedRequests,
    taken <- InReaders \union ToSet(handled),
    answered <- handled
ChannelSpec == Channel!Spec

(* Every request OnReceived was called for with a whole packet's room to     *)
(* spare is handled or refused, unless the service is stopped first or none  *)
(* of its threads runs.                                                      *)
Settled(q) == q \in refused \union ToSet(handled)
Fits(q) == Header.len + q.len <= Capacity
ArrivedSettled == \A q \in Requests : Fits(q) => (q \in arrived ~> Settled(q) \/ mStop \/ \A r \in Readers : ~Running(r))

(* Stop and the destructor come to their end whatever the handlers do,       *)
(* unless TerminateThread hit a thread inside a section of m_poolLock.       *)
LockAbandoned == \E r \in Readers : rpc[r] = "killed" /\ m_poolLock = r
StopEnds == mStop ~> (mainPC = "gone" \/ LockAbandoned)
=============================================================================
