---------------------------- MODULE PackageQueue ----------------------------
(***************************************************************************)
(* The packet queue the services hand received packets over with           *)
(* (Baselib/PackageQueue.cpp) and the parts it is made of: a fixed pool of *)
(* buffers (FixedMemoryPool.h), a std::queue of buffers, a counting        *)
(* semaphore (Semaphore.h) and one lock.                                   *)
(*                                                                         *)
(* A buffer is a model value, the chain of FreeNodes is the set of the     *)
(* buffers on it (the order in which they are handed out tells no property *)
(* apart), and what a packet holds is the sequence of the pieces written.  *)
(* Every LOCK_GUARD section is one step of its thread: PopLocked and       *)
(* Release, which a reader can be killed in, take the lock in a step of    *)
(* their own (EnterLock).                                                  *)
(***************************************************************************)
EXTENDS Integers, Sequences, SequencesExt, FiniteSets

CONSTANTS
    Buffers,    \* the maxPackets elements FixedMemoryPool carves from its block
    MaxPayload, \* maxPacketPayload, in words' quarters (see AlignUp)
    Word,       \* sizeof(void*)
    Pieces,     \* what a producer writes: records with a length
    NoBuffer,   \* a null m_buf
    Nobody      \* the owner of a free lock

ASSUME PoolAssumption ==
    /\ IsFiniteSet(Buffers) /\ Buffers # {}
    /\ NoBuffer \notin Buffers
    /\ MaxPayload \in Nat \ {0} /\ Word \in Nat \ {0}
    /\ \A p \in Pieces : p.len \in Nat

VARIABLES
    m_pool,      \* "none" before Init, "live", "freed" by Uninit
    m_freeList,  \* the buffers on the free list
    m_freeCount,
    m_queue,     \* std::queue<void*>
    m_sem,       \* the count of m_sem
    m_poolLock,  \* the thread inside a LOCK_GUARD(m_poolLock) section
    content      \* content[b]: the pieces written behind b's WTPacketHeader

queueVars == <<m_pool, m_freeList, m_freeCount, m_queue, m_sem, m_poolLock, content>>

-----------------------------------------------------------------------------
\* The elements are aligned, so a packet has room for AlignUp(MaxPayload).
AlignUp(n) == ((n + Word - 1) \div Word) * Word
Capacity == AlignUp(MaxPayload)

\* WTPacketHeader.writePos of a buffer, and PacketRead::GetDataLength.
WritePos(pieces) == FoldSeq(LAMBDA p, sum : p.len + sum, 0, pieces)

\* PacketWrite::Write refuses a piece that does not fit, and writes nothing then.
WriteStrict(pieces, p) ==
    IF WritePos(pieces) + p.len >= Capacity THEN pieces ELSE Append(pieces, p)
Write(pieces, p) ==
    IF WritePos(pieces) + p.len > Capacity THEN pieces ELSE Append(pieces, p)

InitQueue ==
    /\ m_pool = "none"
    /\ m_freeList = {}
    /\ m_freeCount = 0
    /\ m_queue = <<>>
    /\ m_sem = 0
    /\ m_poolLock = Nobody
    /\ content = [b \in Buffers |-> <<>>]

-----------------------------------------------------------------------------
\* PackageQueue::Init when the semaphore and the pool are created.
InitPool ==
    /\ m_pool = "none"
    /\ m_pool' = "live"
    /\ m_freeList' = Buffers
    /\ m_freeCount' = Cardinality(Buffers)
    /\ m_sem' = 0
    /\ UNCHANGED <<m_queue, m_poolLock, content>>

\* PackageQueue::Uninit: the pool goes, the queue and the semaphore stay.
Uninit ==
    /\ m_poolLock = Nobody
    /\ m_pool' = IF m_pool = "live" THEN "freed" ELSE m_pool
    /\ UNCHANGED <<m_freeList, m_freeCount, m_queue, m_sem, m_poolLock, content>>

\* Whether AllocWritePacket finds a buffer.
CanAlloc == m_pool = "live" /\ m_freeList # {}

\* AllocWritePacket: the buffer leaves the free list and Attach empties it.
AllocKeepsOld(b) ==
    /\ m_poolLock = Nobody /\ CanAlloc
    /\ b \in m_freeList
    /\ m_freeList' = m_freeList \ {b}
    /\ m_freeCount' = m_freeCount - 1
    /\ UNCHANGED <<m_pool, m_queue, m_sem, m_poolLock, content>>
AllocWritePacket(b) ==
    /\ m_poolLock = Nobody /\ CanAlloc
    /\ b \in m_freeList
    /\ m_freeList' = m_freeList \ {b}
    /\ m_freeCount' = m_freeCount - 1
    /\ content' = [content EXCEPT ![b] = <<>>]
    /\ UNCHANGED <<m_pool, m_queue, m_sem, m_poolLock>>

\* Push: the buffer joins the queue and the semaphore is posted, under the lock.
PushSilently(b) ==
    /\ m_poolLock = Nobody
    /\ m_queue' = Append(m_queue, b)
    /\ m_sem' = IF m_queue = <<>> THEN m_sem + 1 ELSE m_sem
    /\ UNCHANGED <<m_pool, m_freeList, m_freeCount, m_poolLock, content>>
Push(b) ==
    /\ m_poolLock = Nobody
    /\ m_queue' = Append(m_queue, b)
    /\ m_sem' = m_sem + 1
    /\ UNCHANGED <<m_pool, m_freeList, m_freeCount, m_poolLock, content>>

\* CSemaphore::Wait that returns true.
SemWaitUnguarded ==
    /\ m_sem' = m_sem - 1
    /\ UNCHANGED <<m_pool, m_freeList, m_freeCount, m_queue, m_poolLock, content>>
SemWait ==
    /\ m_sem > 0
    /\ m_sem' = m_sem - 1
    /\ UNCHANGED <<m_pool, m_freeList, m_freeCount, m_queue, m_poolLock, content>>

\* A reader enters a LOCK_GUARD(m_poolLock) section.
EnterLock(t) ==
    /\ m_poolLock = Nobody
    /\ m_poolLock' = t
    /\ UNCHANGED <<m_pool, m_freeList, m_freeCount, m_queue, m_sem, content>>

\* The locked part of Pop, and the lock given back: POP_EMPTY leaves the queue as it
\* is, though a count of the semaphore is spent.
PopPeek(t) ==
    /\ m_poolLock = t
    /\ m_poolLock' = Nobody
    /\ UNCHANGED <<m_pool, m_freeList, m_freeCount, m_queue, m_sem, content>>
PopLocked(t) ==
    /\ m_poolLock = t
    /\ m_queue' = IF m_queue = <<>> THEN m_queue ELSE Tail(m_queue)
    /\ m_poolLock' = Nobody
    /\ UNCHANGED <<m_pool, m_freeList, m_freeCount, m_sem, content>>

ReleaseKeepsLock(t, b) ==
    /\ m_poolLock = t
    /\ m_freeList' = IF m_pool = "live" THEN m_freeList \union {b} ELSE m_freeList
    /\ m_freeCount' = IF m_pool = "live" THEN m_freeCount + 1 ELSE m_freeCount
    /\ UNCHANGED <<m_pool, m_queue, m_sem, m_poolLock, content>>
\* Release, called by ~PacketRead: a pool that is gone takes nothing back.
Release(t, b) ==
    /\ m_poolLock = t
    /\ m_freeList' = IF m_pool = "live" THEN m_freeList \union {b} ELSE m_freeList
    /\ m_freeCount' = IF m_pool = "live" THEN m_freeCount + 1 ELSE m_freeCount
    /\ m_poolLock' = Nobody
    /\ UNCHANGED <<m_pool, m_queue, m_sem, content>>
=============================================================================
