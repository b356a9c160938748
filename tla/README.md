# Verification of iocp-netlib

iocp-netlib is a C++ network library for Windows: one I/O completion port, a
fixed set of worker threads, and services (a TCP server, a TCP client, an HTTP
server) that share them. Applications implement `IIOCallback` and get
`OnConnected`, `OnReceived` and `OnClosed` on the workers' threads, while any of
their own threads may call `Send`, `CloseSocket` or `ConnectServer`. Around that
core the repository has a base library (packet and message queues, pools, a
logger, a blocking socket, an XML document, a database wrapper), a process frame
for Windows services and two programs that use it all.

What makes the core hard is that a connection (`TcpClient`) has no lock. Its
memory is given back to a pool when two counters say so, and four kinds of
actor reach for it: the kernel, the workers, the application and the assist
thread. The base library is hard in smaller ways: a semaphore and a list taken
one after the other, a pointer kept after the lock is gone, a clock that wraps,
an index that every edit has to patch.

This directory models that code in TLA+, checks it with TLC on small instances
and proves the central facts with TLAPS for any size. All paths below are under
`src/`.

## The system

| Component | State | Operations | Talks to |
|---|---|---|---|
| `TcpClient` (`Netlib/TcpClient.cpp`) | `mPendingIO`, `mReferenceCount`, `mConnState`, `mMarkedDestroy`, `mSocket`, `mRecvContext`, `mRecvPacketBuffer`, `mLastTickTime`, `mConnctRemoteSem` | `OnCompleteOperation`, `PostRecv`, `PostSend`, `PostSpecial`, `PostConnect`, `SetDisconnect`, `CheckRelease`, `Reset` | the port, its `TcpService`, the application's callback |
| Packet framing (`SplitPacket`, `SplitHttpPacket`) | the half-received packet, `mCloseAfterSend` | splitting a byte stream | `OnRecvCompletion`, `OnHttpPacket` |
| `TcpService` (`Netlib/TcpService.cpp`) | `mTcpClientMap`, the client, context and packet pools, `mTcpAcceptor` | `StartNetService`, `StopNetService`, `FindClient`, `RemoveClient`, `Send`, `CloseSocket`, `ConnectServer`, `checkStatus` | clients, acceptor, `NetCore` |
| `TcpAcceptor` (`Netlib/TcpAcceptor.cpp`) | `mSocket`, `mPendingAcceptCount` | `Initialize`, `PostAccept`, `OnCompleteOperation`, `PostCancel` | the port, the service's table |
| `NetCoreIOCP` (`Netlib/NetCoreIOCP.cpp`) | the port, the threads and their events, the service list, the id counter | `IOCPWorkProc`, `AssistThreadProc`, `Initialize`, `UnInitialize` | every completion key |
| `PackageQueue` (`Baselib/PackageQueue.cpp`) with `FixedMemoryPool`, `Semaphore` | a queue of buffers, a fixed pool, a count | `Init`, `AllocWritePacket`, `PushPacket`, `PopPacket`, `~PacketRead`, `Uninit` | `HttpService`, `LogManager`, the example programs |
| `HttpService` (`Netlib/HttpServiceImplementer.cpp`) | its threads, `mStop`, a `PackageQueue` | `Start`, `Stop`, `OnReceived`, `ProcessMsg` | `TcpService`, the application |
| `MessageQueue` (`Baselib/MessageQueue.cpp`) | a queue and a pool | `Push`, `Front`, `Pop`, `Clear` | several producers, one consumer |
| `FixedObjectPool` (`include/tool/FixedObjectPool.h`) | a list, a semaphore | `Acquire`, `Release`, RAII holder | threads that borrow |
| `SuperSocket` (`Netlib/SuperSocket.cpp`) | a socket, its blocking mode | `Connect`, `RecvAll`, `SendAll`, `Close` | Winsock, `GetTickCount` |
| `LogManager` (`Baselib/LogManager.cpp`) | a `PackageQueue`, the files, one thread | `Init`, `SetLogLevel`, `Write`, rotation, `UnInit` | every thread that logs |
| `ServiceInstance`, `main` and `CMyService` | the stop event, the service status | `ServiceMain`, `ServiceCtrl`, `RunInstance`, `StopInstance` | the service control manager, the servers |
| `TestClient` | `mSocketID`, `mStop`, a check thread | `StartClient`, `StopClient`, callbacks | `NetService` |
| `CADODatabase`, `CADORecordset` (`Baselib/AdoDatabase.cpp`) | `m_nEditStatus` beside ADO's edit mode | `Open`, `Edit`, `AddNew`, `Update`, `CancelUpdate`, `Delete`, moves, `Close` | ADO |
| `CMarkup` (`Baselib/Markup.cpp`) | the text `m_strDoc`, the index `m_pElemPosTree`, positions | `SetDoc`, finds, `AddElem`, `AddSubDoc`, `SetElemContent`, `SetData`, `SetAttrib`, removals, nodes, saved positions | its one caller |

How the core interacts: `PostX` gives the kernel an `OVERLAPPED` and the address
of a `TcpClient` or `TcpAcceptor` as completion key; a worker takes the packet
from the port and calls `OnCompleteOperation` on that address. The application's
calls go through `FindClient`, which takes a reference under
`mTcpClientPoolLock`. The assist thread calls `checkStatus` every five seconds
and walks the table under the same lock. What was received is split into
packets by the worker; for an HTTP service it copies them into the packet queue,
from which the service's own threads take them.

The hard behaviours (`PROJECT.json` lists each at its line, with the properties
about it):

* **Counting.** A client may go when its last operation is gone. Every path that
  posts an operation must count it before, and every path that ends one must
  give the count back once.
* **Last one out.** Several threads may see the counter drop; one of them must
  report `OnClosed` and release, while nothing new is started.
* **References.** The application may have a client in hand at the moment of its
  release; it is then only marked, and `checkStatus` frees it later.
* **The acceptor** pre-allocates a client per outstanding accept, and deletes
  itself on a worker when no accept is outstanding.
* **ConnectServer** races a time-out against the answer.
* **Stopping.** `StopNetService` and `HttpService::Stop` take down what other
  threads are still using, with waits that end after a fixed time, a lock held
  while waiting, and `TerminateThread`.
* **Two-step containers.** `PackageQueue` and `FixedObjectPool` take a semaphore
  and then a lock; `MessageQueue::Front` lets a pointer out of the lock.
* **Framing.** A packet may arrive in any number of pieces or with its
  neighbours; the HTTP parser looks for the end of the header past what was
  received.
* **Derived state.** `CMarkup` patches its offsets at every edit; the database
  wrapper keeps an edit status beside ADO's own.
* **Failures**: an operation that cannot be posted, a callback that throws, a
  `PostQueuedCompletionStatus` that fails, a thread or event that is not created,
  a rename of the log file that fails, an `Update` that ADO refuses.

### What makes each component correct

* `TcpClient`: the count is exact; it reaches zero only for a closed
  connection; no kernel operation and no reference outlives the object;
  `OnClosed` comes once and last; the half-received packet goes back to its pool;
  a connection that starts closing is released in the end.
* `TcpService`, `TcpAcceptor`: a referenced client is never freed; what is asked
  to close does close; the acceptor's count is exact, and it is deleted only when
  nobody uses it; `StopNetService` returns with nothing left behind.
* `ConnectServer`: an id is returned only for a connection that is announced.
* `NetCoreIOCP`: `UnInitialize` returns with every worker gone.
* `PackageQueue`, `HttpService`: no buffer lost or owned twice, a wake-up for every
  packet, requests taken in order and handled once, the pool freed last.
* `MessageQueue`, `FixedObjectPool`: what a thread was given stays its own.
* Framing: the application gets the peer's messages, whole and in order; only an
  illegal one is refused; the connection closes after the answer that asked for it.
* `SuperSocket`: no call waits past its time-out. `LogManager`: no line is lost or
  moved. The service process: a stop ends it. The test client: it reconnects.
* Database wrapper: what `Update` answered is true of the table. `CMarkup`: the
  index is the one a fresh parse would give.

## Modules

| Module | Models | Role |
|---|---|---|
| `TcpClient` | `TcpClient.cpp`, and the table, `Send`, `CloseSocket`, `checkStatus` of `TcpService.cpp`, the dispatch of `NetCoreIOCP.cpp` | the component shared by both modes; no specification of its own |
| `TcpServer` | listening mode: `TcpAcceptor.cpp` over `TcpClient` | state machine, properties, fairness |
| `TcpConnector` | connecting mode: `ConnectServer`, `OnConnectExCompletion` over `TcpClient` | state machine, properties |
| `ConnectionLife` | what a service promises of each connection | the abstract specification `TcpServer` implements |
| `NetShutdown` | `StartNetService`, `StopNetService`, `ReleaseAllPool`, `Initialize`, `UnInitialize`, the assist thread, the acceptor's end | state machine with a connection reduced to one operation and its place in the table |
| `PackageQueue` | `PackageQueue.cpp`, `FixedMemoryPool.h`, `Semaphore.h` | operators for the modules whose threads use the queue |
| `HttpService` | `HttpServiceImplementer.cpp` over `PackageQueue` | state machine: workers, the service's threads, main |
| `RequestChannel` | what the service promises of accepted requests | the abstract specification `HttpService` implements |
| `Framing`, `FramingInputs` | `SplitPacket`, `SplitHttpPacket`, `OnHttpPacket`, `SendResponse` | one connection's byte stream; the peers TLC tries |
| `MessageQueue`, `ObjectPool`, `SuperSocket`, `AdoRecordset` | the parts of these names | state machines |
| `LogManager` | `LogManager.cpp` over `PackageQueue` | state machine: writers, log thread, owner |
| `ServiceProcess`, `ClientApp` | `main.cpp` with `MyService.cpp`; `Client.cpp` with `Client_Net.cpp` | state machines with fairness |
| `Markup` | `Markup.cpp`: parser, index, edits, positions | one document and its caller |
| `MCTcpServer`, `MCTcpConnector`, `MCHttpService`, `MCBaselib`, `MCParts` | | instances for TLC |
| `TcpServerInv`, `TcpServerLifeInv` | | the inductive invariants of `TcpServer`: references and the acceptor's count; the end of a connection |
| `TcpConnectorInv`, `NetShutdownInv`, `FramingInv` | | the inductive invariants of `TcpConnector`, `NetShutdown` and `Framing` |
| `TcpServer_proofs`, `TcpServerLife_proofs`, `TcpConnector_proofs`, `NetShutdown_proofs`, `HttpService_proofs`, `LogManager_proofs`, `Framing_proofs`, `Baselib_proofs` | | theorems; `Baselib_proofs` is about `MessageQueue`, `ObjectPool`, `SuperSocket` and `AdoRecordset` |

**Connections (`TcpClient`, `TcpServer`, `TcpConnector`).** A client is named by its
logic socket id and is `unused`, `live` (in the table) or `freed`; ids are not
reused, so a use of a freed client shows as such even though the pool recycles
memory. `io[x]` follows an overlapped operation: `none`, `posting` (set up but not
issued), `kernel`, then `done` or `failed` when its packet is in the port's queue.
A client stands for its own `mRecvContext`; sends and special operations
(`timeout`, `closed`, `connectTimeout`) use a heap `IOContext` with its own
operation type. `pc[t]` and `cur[t]` say where a thread is in the handler it runs
and on which client. One action is what a thread does between two accesses others
can observe, in the order of the source; what runs under `mTcpClientPoolLock` is
one action. A completed receive runs, for example, `RecvCompleted` (dequeue,
`UpdateLastTickTime`), `OnRecvCompletion` (split, `OnReceived`), `PostRecv`
(count, set up), `IssueRecv` (the `WSARecv` call), then `DecreaseIOCount`,
`MarkClosed`, `ReportClosed`, `RemoveClient`, which are the steps of
`CheckRelease`. A thread that would use a freed client or a deleted acceptor goes
to `"fault"` and stays there: what happens after the first such use has no meaning
in C++. `SpecialPostFails` and `CallbackThrows` switch on failing
`PostQueuedCompletionStatus` calls and throwing callbacks; failures of `WSASend`,
`WSARecv`, `AcceptEx`, `ConnectEx`, of the pools and of the peer are always on.

**Stopping (`NetShutdown`).** `mainPC` walks main through `Initialize`,
`StartNetService`, `StopNetService` (mark, cancel the acceptor and wait for its
event, close the clients, poll the table, release the pools) and `UnInitialize`
(stop the assist thread, post one poison packet per worker, wait for their events).
`port` is the queue of packets in order. The `poolLock` that `Poll` and `Nap` keep
is the lock the workers need for `RemoveClient`.

**The HTTP service.** `mainPC` is `Start`, `Stop` and the destructor; `wpc`/`wbuf` a
worker in `OnReceived` (allocate, write, push), `rpc`/`rbuf` a service thread in
`ProcessMsg` (test `mStop`, wait, lock, pop, handle, lock, release). `Join` may
terminate a thread at any of these places (`Slow`), also with the lock; such a lock
is never free again. `content[b]` is what was written to a buffer: header and
request, or only the header when the request did not fit.

**Framing.** A stream is a sequence of tokens (a size field, a header name, a digit, a
byte of data); the buffer keeps the tokens of earlier packets past `mRecvBytes`,
and what lies behind it, because the HTTP parser reads on into them. Each `WSARecv`
may find 1, 3 or 25 tokens. Sums of lengths wrap at `IntMax`. A peer's message says
whether it is legal, asks for the connection to be closed, and what its body is;
`IsTcpMessage` and `IsHttpMessage` say what that means of its bytes alone, as if it had
come in one piece, and `PeerAssumption` takes every peer of `Connections` to send such
messages, any number of them, legal or not.

**Markup.** The text is a sequence of units (a tag's opening, its ends, an attribute,
a character, a line end, a comment) and all offsets count units. The index is a
function from element numbers to records with the fields of `ElemPos`, patched by
`x_Adjust`, `x_LinkElem`, `x_UnlinkElem` and `x_InsertNew` as in the source. `edits`
bounds the edits after a `SetDoc`. An action whose intermediate results are used
several times binds each with a quantifier over one value.

**The parts.** `LogManager`'s thread (`lpc`) and writers (`apc`) step through the
queue as the HTTP service's threads do. `ServiceProcess` has the service's thread
(`runPC`) and the dispatcher's (`ctrlPC`), `ClientApp` the starter, the check thread,
the workers' callbacks and `StopClient`. `SuperSocket` counts the clock modulo
`Wrap` from any start; `elapsed` is the true time. `AdoRecordset` keeps the
wrapper's status and ADO's (`pending`, `buffered`) apart, and every value put is
new, so that one can say where it ended. `PROJECT.json` maps every definition to its
lines.

## Runs

| Run | Instance | Shows |
|---|---|---|
| `server_one_connection` | 1 client, 2 contexts, 2 workers, 2 application threads, assist thread | the counts are exact, no memory is used after it is freed by the kernel or under a reference, `OnClosed` is called once and last, a count of zero means closed, packets go back; the connection implements `ConnectionLife` |
| `server_acceptor` | 3 clients, backlog 2, 2 workers, the starter | `mPendingAcceptCount` is exact and the acceptor outlives its accepts |
| `server_liveness` | 1 client, 1 context, 2 workers, 1 application thread, fairness | a closing connection is released and reported; a close or time-out takes effect |
| `server_faults` | as above with both faults on | the inductive invariant of the proofs, faults included |
| `connector` | 1 client, 2 contexts, 2 workers, 2 application threads | exact counts, live references, returned ids are announced, no `OnClosed` before `OnConnected` |
| `http_service` | 2 buffers, 1 worker, 2 service threads, 3 requests, fairness | no buffer lost or shared, wake-ups cover the queue, the pool is freed last, what arrives is settled, `Stop` ends; the service implements `RequestChannel` |
| `net_shutdown` | 2 clients, backlog 1, 2 workers, fairness | the pools are freed with nothing left in them, no connection slips through, `StopNetService` and `UnInitialize` return |
| `baselib` | one part at a time: 4 documents, 3 fragments, 1 saved position, 1 or 2 edits; 2 log packets, 2 writers, 3 cells, faults | the index equals a fresh parse, positions point to living elements; the log's lines are those that were queued, in order |
| `parts` | one part at a time | framing, message queue, object pool, service process, test client, database wrapper and blocking socket keep their promises |
| `server_special_drained` | violation | `checkStatus` frees a client with an operation queued to it |
| `server_start_fails` | violation | a failed `StartNetService` deletes the acceptor with accepts outstanding |
| `server_idle_clock` | violation | an accepted connection starts with an expired idle clock |

The three violations are disagreements between the code and one of its own
comments; `PROJECT.json` quotes the lines.

`parts` puts seven state machines that share no state side by side: the constant
variable `part` says which of them a behaviour is about, the others stay in their
initial state. Its state space is the sum of theirs, not the product, and its
properties are those of the modules. `baselib` does the same with `Markup` and
`LogManager`.

**Bounds, and why they are enough.**

* Connections share nothing but the acceptor, the threads and the pool of
  contexts, so the properties of one connection are checked with one client and
  as many threads as can meet on it: two workers and two application threads are
  enough for every pair of handlers to overlap, including the two that end the
  last two operations. The acceptor's properties need several clients and no
  application; there the backlog is 2 with one more client to repost.
* `IOContexts` bounds the sends and special operations of one moment; a context
  is reused as soon as it is free. `FreeContexts` being empty is `PostSend`'s "no
  memory" path. Ids bound the number of connections over time; when they are used
  up the system stops, which is why deadlock is not checked there.
* `LeastPendingIO` stops `mPendingIO` from falling without end when every
  `PostSpecial` fails; it matters only with `SpecialPostFails`.
* `UnstalledPCs`: between allocating a client and posting its first operation, or
  while it drops one, a thread is not taken to stall for longer than
  `clientTimeoutSec`. Without it `checkStatus` could time out a client before
  its first operation.
* `http_service`: two buffers and three requests fill the queue, empty the pool, and
  bring a request that leaves no room for its header; two service threads can
  race for one packet, be terminated in two places, or not start at all.
* `net_shutdown`: one accept and one connection can be in every pair of places when
  main begins to stop; two workers let one hold the last accept while the other
  drops a client. `WaitsExpire = FALSE` says the 1000 ms and 600 ms waits are long
  enough: a wait ends early only when nothing it waits for can move any more.
* Framing: two messages per connection, up to `MaxPacket` = 20 tokens, so that a
  packet can fill the buffer exactly, exceed it by one, fill it with a header that
  does not end, arrive in one receive with its neighbour or in twenty, and a
  Content-Length can wrap (`IntMax` = 63).
* The clock of the blocking socket wraps after 6 ticks with time-outs up to 3, and
  starts at every value; `elapsed` stops at one less than `Wrap`.
* Two objects and three borrowers; two message buffers and four messages, one of
  them too long; two log buffers, two writers and a file that is rotated after one
  line; two failures of `NetCore::Initialize` (`MaxFailures`), with two servers of
  the process's four; three ids of the client, which are used again.
* `Markup`: documents with no element, an empty one, siblings with text and line
  ends between, and a nested one with a comment. Every edit is tried from every
  position navigation can reach, and a second one after it on the two smallest.
* Symmetry is used in the `TcpServer` and `TcpConnector` safety runs only (clients,
  contexts, workers, application threads are interchangeable; the starter and the
  assist thread are constants of their own). The runs with liveness use none.

**Fairness.** In `TcpServer`, every thread that can step does (weak fairness per
worker and per application call, the operating system's scheduler). A packet in
the port is taken in the end: the port is a FIFO queue, and strong fairness per
packet says that no packet waits forever behind later ones. The operations of a
closed socket end. `checkStatus` comes round. The kernel owes nothing for an open
socket (a peer may stay silent), and neither do the application and the clock.
`ClosingReleased` supposes in addition that the application stops taking references
to that client and that the workers finish a handler within `clientTimeoutSec`,
since otherwise each turn of `checkStatus` posts another operation.

`HttpService` has strong fairness per worker and per service thread, because they
compete for one critical section, which Windows gives to a waiter in the end, and
weak fairness for main. `NetShutdown` has the same for the lock `StopNetService`
takes and gives back around its naps, completion of what was aborted by closing a
socket, and the end of the counted loop of naps. In `ServiceProcess` both threads
run on, but nobody has to ask for a stop; in `ClientApp` a server that can be
reached again and again accepts in the end, but nothing makes a connection end.

**What the constants leave out of the runs.** Some deviations are modelled behind a
constant that the runs leave off, and can be seen by changing it:

* `SpecialPostFails = TRUE` in `ServerOneConnection.cfg`: `ZeroMeansClosed` and
  `KernelBuffersLive` fail, and the life of the connection is not `LifeSpec`'s.
  `PostSpecial`'s error path gives one count too many back (`TcpClient.cpp` 169).
* `WaitsExpire = TRUE` in `NetShutdown.cfg`: `ReleasedSafely` and
  `NoLateConnection` fail, the first against "then we can release memory pool of tcp
  service safely" (`NetService.cpp` 105).
* `LateWorkers = TRUE` in `HttpService.cfg`: `NoBufferAfterFree` fails for the same
  reason.
* `Careless = {"bare"}` in `Baselib.cfg`: an insertion without line ends into an
  element whose start and end tag touch puts `MCD_EOL` before the new text without
  moving its offset, and `IndexMatchesDoc` fails. `"ill"` and `"empty"` are
  fragments without a well-formed element and `SetData("")` on a text node.
* `EarlyAnswers = TRUE` in `Parts.cfg`: an answer may be sent before `mCloseAfterSend`
  is set for its request, and `CloseAsAsked` fails (`TcpClientHttp.cpp` 156).
* `RequestsAnswered` of `Framing` is not checked: `OnHttpPacket` asks for a header shorter
  than the packet, so a legal request without a body gets no answer.
* In `TcpConnector` a connection may be announced after `ConnectServer` returned 0,
  and a connect that failed is released with its socket open (`TcpClient.cpp` 547).

## Proofs

Eight modules are checked by TLAPS for all values of the constants that satisfy the
named assumptions of the modules they extend.

| Theorem | Of | States | Assuming |
|---|---|---|---|
| `TypeCorrect` | `TcpServer` | `TypeOK` | |
| `RefIInvCorrect`, `ReferencesProtect` | `TcpServer` | `RefIInv`, `RefProtects` | none: both kinds of fault are allowed |
| `PendingIOExact` | `TcpServer` | `CountExact` | `~SpecialPostFails` |
| `AcceptorOutlives` | `TcpServer` | `StartedAcceptorOutlives` | none |
| `PendingAcceptExact` | `TcpServer` | `AcceptCountExact` | `~CallbackThrows` |
| `LifeIInvCorrect` | `TcpServer` | `LifeIInv` | `~SpecialPostFails`, `~CallbackThrows` |
| `KernelBuffersStayLive`, `ClosedIsLast`, `PacketsComeBack` | `TcpServer` | `KernelBuffersLive`, `ClosedLast`, `PacketReturned` | the same |
| `DrainedMeansClosed` | `TcpServer` | `ZeroMeansClosed` unless the start was lost (`StartLost`) | the same |
| `ServerLivesLife` | `TcpServer` | it implements `ConnectionLife` (`LifeSpec`) | the same |
| `RefIInvCorrect`, `ReferencesProtect` | `TcpConnector` | `RefIInv`, `RefProtects` | none: both kinds of fault are allowed |
| `PendingIOExact` | `TcpConnector` | `CountExact` | `~SpecialPostFails` |
| `ConnectIInvCorrect`, `ClosedComesAfterConnected`, `ReturnedIdIsConnected` | `TcpConnector` | `ConnectIInv`, `ClosedAfterConnected`, `ReturnedIsConnected` | `~SpecialPostFails` |
| `ShutdownInvCorrect`, `PoolsReleasedSafely`, `NoConnectionSlipsThrough` | `NetShutdown` | `ShutdownInv`, `ReleasedSafely`, `NoLateConnection` | `~WaitsExpire` |
| `TypeCorrect` | `HttpService` | `TypeOK` | |
| `PoolIsConserved` | `HttpService` | `PoolConserved` | |
| `TokensAlwaysCover` | `HttpService` | `TokensCoverQueue` | |
| `FreedAfterLastUse` | `HttpService` | `NoBufferAfterFree` | `~LateWorkers` |
| `ServiceIsChannel` | `HttpService` | it implements `RequestChannel` (`ChannelSpec`) | none |
| `FrontAlwaysStays` | `MessageQueue` | `FrontStays` | |
| `EachAlwaysHasItsOwn` | `ObjectPool` | `EachHasItsOwn` | |
| `DeadlineAlwaysKept` | `SuperSocket` | `DeadlineKept` | |
| `UpdateAlwaysKeepsItsWord` | `AdoRecordset` | `UpdateKeepsItsWord` | |
| `SplitterInvariant`, `FramingTypes` | `Framing` | `SplitterInv`, `FramingTypeOK` | |
| `FramingDeliversExactly` | `Framing` | `DeliveredExact` | |
| `FramingAcceptsLegal` | `Framing` | `LegalAccepted` | |
| `ServiceAgreesWithFraming` | `Framing` | `ServedAsFramed` | |
| `FramingClosesAsAsked` | `Framing` | `CloseAsAsked` | `~EarlyAnswers` |
| `LinesAlwaysInOrder` | `LogManager` | `LinesInOrder` | `CellsFit`: a packet holds a `LogCell`, as `LogManager::Init` makes them (`LogManager.cpp` 109) |

**The hypotheses are the faults that really break the properties.** But
for `CellsFit`, every hypothesis is a constant of the model that switches a fault on,
never a limit on the number of clients, threads or packets. With `SpecialPostFails` one count too
many is given back, with `CallbackThrows` a worker leaves a handler half done and
its counts with it, with `WaitsExpire` main goes on while a worker is still in the
service: the section above says which properties TLC then finds violated. What the
references promise needs no hypothesis. `StartLost` says that `StartNetService` gave
up, or met an acceptor that a worker had deleted (`pc[Starter]` is `"gaveUp"` or
`"fault"`): it then leaves an allocated client with its socket open and nothing
posted, which `checkStatus` may find idle.

**`TcpServer`: references.** `RefProtects` alone is not inductive: `DropClient` stands
for the acceptor's `Reset`, which writes 0 to `mReferenceCount` whatever it was. It is
harmless only because nobody knows the client's id yet. So `TcpServerInv` follows a
client from `AllocTcpClient` to its first receive:

1. `AllocInv`: nothing refers to a client that was never allocated.
2. `OnePump`: at most one thread has a given client between two operations on its
   `mRecvContext`; `PumpIO`: while one has, the kernel does not; `PumpOp`: what
   `mRecvContext.mOperationType` is then.
3. `NamedInv`: the application was told an id only if a receive was posted for
   it, and never that of a client being dropped.
4. `RefCounted`, `RefNamed`: `mReferenceCount` is the number of application
   threads with a reference, each to a live client it was told of.

`RemoveClient` and `checkStatus` free only at `mReferenceCount = 0`, so by 4
nobody has the client; `DropClient` resets only where by 3 nobody can. The
proof has one step per action for each of the lemmas `TypeStep`, `ConnStep`,
`RefNamedStep` and `RefCountedStep`. The run `server_faults` checks the same
invariant (`RefIInv`) on an instance.

**`TcpServer`: the two counts.** `PendingIOExact` adds `IOCounted`: the count
of every client that is not freed and not being dropped is the cardinality of the
set of its holders. Each step leaves that set alone, adds or removes one element
together with one count, or swaps an operation for the worker that dequeued it
(`HoldersKept`, `HolderAdded`, `HolderRemoved`, `HolderSwapped`). That a dropped
client does not come back uses `RefIInv`.

For the acceptor, `AcceptCounted` says that `mPendingAcceptCount` is never less than
the accepts outstanding, the workers that handle one and the threads about to call
`AcceptEx`, together. Each step is either balanced (the count and what it counts move
alike) or leaves slack (a thread that threw, or that met freed memory, keeps its
count for ever). So the worker that brings the count to 0 is alone
(`AcceptorOutlives`, in every behaviour), and without a throw no slack arises
(`PendingAcceptExact`).

**`TcpServer`: the end of a connection.** `LifeIInv` adds to the exact count
(`TcpServerLifeInv`):

1. `OpenedInv`, `FreshInv`: nothing but the acceptor touches a client before its first
   receive, which is then closed, not idle and not marked; `SendNamed`,
   `DroppedDrained`: nobody sends on it, and what `Reset` cleared is not counted up.
2. `SocketInv`: whoever moves a connection on from `CONNECTED` closes its socket;
   `EarlyRelease`: the same when `checkStatus` closed it before its first receive.
3. `KeptInv`: a connected client has a receive outstanding, or a thread that will
   post the next one, disconnect it or drop it; `ReceivingInv`: meanwhile nobody
   says `CLOSED`.
4. `QuietInv`: once a thread has found the count drained, nothing is outstanding,
   nobody works towards it and nothing new can start. `ClosingInv`, `EndInv`: of the
   threads that come this far one moves `CLOSING` to `CLOSED`, and reports it.
   `PacketInv`: that report returns the half-received packet.

The step that matters is `DecreaseIOCount` to 0. The count is exact, so there is no
holder left; every way to be `Kept` is a holder, so the client is not `CONNECTED`
by 3; and not being connected stops every handler that would start an operation.
The invariants follow from there. `ServerLivesLife` maps the counters, sockets and
threads of a client to a phase and what the application was told (`ConnectionLife`)
and shows action by action that a step of the server is a step of that life or
leaves it alone. `DrainedMeansClosed` needs in addition that an allocated client
whose `mRecvContext` is idle is on its way to an accept or out again (`IdleInv`),
which is where `StartLost` comes in.

**`TcpConnector`.** The caller of `ConnectServer` is alone with its client until the
`ConnectEx` is posted (`FirstInv`); from then on `OnePump`, `PumpIO` and `PumpOp` say
what they say for the server, and `RefCounted`, `RefKept` protect references in the
same way, here without a hypothesis on ids, since no `Reset` is on the way. For the
answer:

1. `EndInv`: the outstanding `ConnectEx`, then the worker that dequeued it, holds one
   count until `OnConnected` has returned, so by `IOCounted` nobody else finds the last
   one gone: the client is live and not reported closed (`ClosedComesAfterConnected`).
2. `OneCaller`: one thread waits for a client. `AnswerInv`: a caller that still waits
   has not posted the time-out, and a failed connect answers with `CLOSED` stored;
   so a semaphore post it takes with `CONNECTED` to be read came from the worker
   that goes on to `OnConnected` (`ReturnedIdIsConnected`).

TLC checked each conjunct on the instance of `connector`, and with callbacks that throw.

**`NetShutdown`.** A client in the table is in exactly one place: its operation is with
the kernel, its packet in the port, or a worker has it in hand (`PlaceInv`).
`PendingCounts` makes `mPendingAcceptCount` the accepts not in hand, the workers that
handle one, and those about to repost. So the worker that reaches `release` is the
last with anything of the acceptor (`ReleaseInv`), and the event it sets says that no
accept, and so no new connection, is left (`NoConnectionSlipsThrough`); with the
table empty as well, no packet of the service is in the port and no worker in its
code when the pools go (`PoolsReleasedSafely`, `StopInv`). `port` is any sequence: that
a packet is in it once (`OnePacket`) is stated by positions.

**`HttpService`.** `QueueInv` is the type invariant with `HandInv` (which place of a
thread's code goes with a buffer in its hand) and `StartInv` (no packet and no
thread before the queue is there). `PoolConserved` is proved from `OwnInv`, which
says the same buffer by buffer and index by index: every buffer is in some place
(`Somewhere`), and no two places hold the same one (`FreeApart`, `QueueApart`,
`HandsApart`), so that each step has one buffer to follow; `FreeCounted` is the
cardinality. `TokenInv` counts the readers on their way to the queue and the ones
killed on it; the proof of a step is what it does to these two finite sets.
`LifeInv` is the order of `Stop`: the network first, then the threads, then the
pool; only its first part needs `~LateWorkers`. Terminated threads and a lock that
is never given back are part of all the theorems.

`ServiceIsChannel` maps the service to `RequestChannel`: pending are the requests in
the whole packets of the queue, taken the ones with a reader or handled, answered the
handled ones. It rests on two more invariants. `PacketInv`: a packet that holds both
pieces ends in a request, and that is the request of the worker whose packet it still
is. `OnceInv`: a request is in one place at most (`InOnePlace`: a worker, a position
of the queue, a reader), and it is handled when and only when its reader has passed
the handler (`HandledOnce`). `PushPacket` of a whole packet is then `Accept`, `Pop`
of one is `Take`, `Handle` of one is `Answer`, and every other step is a stutter: a
buffer that is allocated or written is in no queue and no reader's hand, which is
`OwnInv` again, so its part about the queue and the hands must hold after the pool is
gone as well. A packet whose request did not fit its buffer passes through as
nothing. The mapping filters the queue: `RequestsOf` is a recursive function, and what
it yields for a queue that grew by a packet (`OfAppend`), lost its first (`OfTail`) or
kept its packets (`OfSame`) is proved by induction over its table of prefixes.
`NatSetInduction` states that induction for a set of numbers, from `WFMin` of the
library, so that no operator has to be instantiated.

**The base library.** `MessageInv`: position by position the queue agrees with the
messages `Push` answered true for, and a queued buffer is not free, so the first
one stays as it is until the consumer's own next call. `PoolInv` (`ObjectPool`): the
list is as long as the semaphore's count and the threads past it together
(`Covered`), and no object is on the list twice, on it and lent, or lent twice
(`LentOnce`).
`SocketInv`: the wrapped difference of two tick counts is the true time as long as
less than `Wrap` has passed since the call began (`DiffIsElapsed`; the action `Tick`
takes a call to end within one turn of the clock, 49 days).
`WordInv`: the values of the caller's edit are in ADO's buffer or were saved by ADO
on a move (`MineHeld`), and nothing that was given up is still in the buffer
(`BufferFresh`), so it cannot be saved later.

**`LogManager`.** Every packet is in one place: free, with one writer, once in the
queue, or in the thread's hand (`OwnInv`), and there is one wake-up for each packet
in the queue (`TokenInv`), so `Pop` finds one. The packets of the queue, and before
them the one in hand, hold the last cells that were logged (`QueueInv`): no writer
touches a packet that is not its own. `OrderInv` says that the files are `Selected`
from the cells before these, by an increasing function from lines to cells. Only
`WriteLine` moves a cell across that border: it extends the function by the new line
(`SelectedTakes`) or leaves it (`SelectedSkips`), and a rename moves lines from
`file` to `archives` without changing their concatenation. Disks that fail and a
thread that `Join` terminates are part of the theorem; the property itself names them
as what voids it.

**`Framing`.** `DeliveredExact` is about where packets end, and nothing in it says where
the bytes in the buffer come from. `SplitterInv` (`FramingInv`) adds that: the tokens
of the stream that arrived are in three parts, in order and without a gap. Consumed,
which is a whole number of messages (`Consumed`); in the buffer, which begins where the
next message begins (`Holds`); received and not yet copied (`leftSize`). Behind
`mRecvBytes` the buffer is arbitrary. The argument has three layers:

1. *The parsers are local.* Two buffers that agree on their first n tokens (`Agree`)
   have the same header's end if it is among them (`HeaderEndAgrees`), the same header
   lines (`LinesAgree`), and `atoi` reads the same number from them, because it stops at
   the line's end at the latest (`AtoiAgrees`). `Number` is a recursive function, and
   that it yields a number from 0 to `IntMax` is shown by set induction over its table.
2. *The stream.* `FlattenSeq` is recursive as well: `FlatExists` builds the table of its
   prefixes, `FlatGrows` says that a message is at its place in every longer stream
   (`StreamFacts`), and messages end in order (`EndsGrow`).
3. *A turn of the inner loop* (`Decides`): with the buffer as above, a positive
   `NextPacket` is the length of the next message, which is legal and received; 0 means
   that it is not complete; -1, or a buffer that is full without a packet, that it is
   illegal or that the HTTP parser read beyond `mRecvBytes` (`RanIntoOldBytes`). Sums
   that wrap at `IntMax` are part of it (`WrapFacts`).

Every action then keeps the invariant: `Copy` extends the second part by the beginning
of the third (`OverlayHolds`), `Deliver` appends the next message, and `Mark` moves a
message from the second part to the first. Neither the sizes of receives nor the
buffers of the pool are limited. `ServedAsFramed` needs from this that a delivered
packet is a message of the peer, and then that both parsers of the header agree on it
(`ReadableServed`). `CloseAsAsked` adds `CloseInv`: of a peer that waits at most one
request is not answered, so an answer goes to the request split last
(`AnswersTheLast`), and `mCloseAfterSend` is what that request asked for, unless the
answer leaves between `OnReceived` and the assignment, which `EarlyAnswers` allows.
TLC checked `SplitterInv`, `RefusedInv`, `ServiceInv` and `CloseInv` on the peers of
`parts` before they were proved.

The hypotheses on the constants are what the code's callers guarantee: a buffer of at
least one byte and at most `INT_MAX` (`SizeAssumption`), buffers of the pool that are
all `mMaxPacketSize` long (`BufferAssumption`), and `PeerAssumption`, which only says
which field of a message names what. A stream that ends in the middle of a message is
one of these of which not everything arrives.

**Only model-checked.** All liveness (fairness and ENABLED are outside TLAPS as used
here). `IndexMatchesDoc` and `PositionsAlive` of `Markup`, whose parser is a RECURSIVE
operator, which takes its module out of the SMT backend's reach; written as a recursive
function the parser would still have to be compared with the patched index by induction
over documents. Every other invariant of the passing runs is stated by a theorem above.

## Not modelled

* The bytes of packets are tokens, and each connection has one or two messages.
* Reuse of socket handles and of logic socket ids (the id counter wraps after
  2^32 connections).
* Statistics and SNMP counters, what logging prints, memory exhaustion in the form
  of a throwing `operator new`, and exceptions on the assist thread.
* `DynamicMemoryPool` is taken as `malloc`; the modules give every object a name of
  its own instead.
* `Markup`: file mode (`MDF_READFILE`, `MDF_WRITEFILE`), paths, encodings, white space
  beyond `MCD_EOL`, and more than one attribute per tag. ADO: transactions, commands,
  parameters, chunked reads, the conversion of values (`AdoTypeConvert.h`).
* HTTP routes and the text of responses; registering a Windows service; the other
  example programs; build files.

## Plan

1. *Done*: `TcpClient`, `TcpServer`, `TcpConnector`, `ConnectionLife`; types,
   reference safety and exact counts proved.
2. *Done*: `PackageQueue`, `HttpService`, `RequestChannel` with its theorems;
   `NetShutdown`; `Framing`; the parts of the base library and the programs; `Markup`;
   the theorems about `MessageQueue`, `ObjectPool`, `SuperSocket` and `AdoRecordset`.
3. *Done*: theorems about the end of a connection, the acceptor's count, the
   refinement of `ConnectionLife`, `TcpConnector` and `NetShutdown`.
   `LogManager` as well, and the refinement `ChannelSpec`.
4. *Done*: `Framing`'s properties for every stream, by set induction over the stream's
   messages and the parser's tokens.
5. Left: the two invariants of `Markup`, which need the parser as a function and an
   induction over documents; the hazards without a property (`PROJECT.json`).
