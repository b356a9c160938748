---------------------------- MODULE MessageQueue ----------------------------
(***************************************************************************)
(* MessageQueue (Baselib/MessageQueue.cpp): like PackageQueue, but nobody  *)
(* waits, and the consumer reads the first message where it lies: Front    *)
(* gives a pointer into the queue's buffer after the lock is gone, and Pop  *)
(* frees the buffer.  Several threads push; one consumes, looks at a        *)
(* message for as long as it likes and then pops it, or clears the queue.   *)
(***************************************************************************)
EXTENDS Integers, Sequences, SequencesExt, FiniteSets

CONSTANTS
    Buffers,  \* the elements of m_pool
    Messages, \* what the producers push, each once
    TooLong,  \* the messages longer than an element has room for
    NoBuffer, NoMessage

VARIABLES
    m_pool,     \* "none", "live", "freed"
    m_freeList,
    m_queue,
    text,       \* per buffer: the message copied behind its header
    pushed,     \* the messages Push answered true for, in order
    taken,      \* how many of them Pop and Clear have removed
    front,      \* the buffer the consumer looks into, from Front to its next call
    seen        \* the message it saw there when Front returned

mqVars == <<m_pool, m_freeList, m_queue, text, pushed, taken, front, seen>>

MessageInit ==
    /\ m_pool = "none" /\ m_freeList = {} /\ m_queue = <<>>
    /\ text = [b \in Buffers |-> NoMessage]
    /\ pushed = <<>> /\ taken = 0
    /\ front = NoBuffer /\ seen = NoMessage

InitPool ==
    /\ m_pool = "none"
    /\ m_pool' = "live" /\ m_freeList' = Buffers
    /\ UNCHANGED <<m_queue, text, pushed, taken, front, seen>>

\* Push: false for a message that does not fit and when no buffer is free.
Push(m) ==
    /\ m_pool = "live" /\ m \notin Range(pushed) /\ m \notin TooLong
    /\ \E b \in m_freeList :
          /\ m_freeList' = m_freeList \ {b}
          /\ text' = [text EXCEPT ![b] = m]
          /\ m_queue' = Append(m_queue, b)
    /\ pushed' = Append(pushed, m)
    /\ UNCHANGED <<m_pool, taken, front, seen>>

\* Front: the pointer and the length of the first message.
FrontFrees ==
    /\ m_pool = "live" /\ m_queue # <<>> /\ front = NoBuffer
    /\ front' = Head(m_queue) /\ seen' = text[Head(m_queue)]
    /\ m_queue' = Tail(m_queue)
    /\ m_freeList' = m_freeList \union {Head(m_queue)} /\ taken' = taken + 1
    /\ UNCHANGED <<m_pool, text, pushed>>
FrontMessage ==
    /\ m_pool = "live" /\ m_queue # <<>> /\ front = NoBuffer
    /\ front' = Head(m_queue) /\ seen' = text[Head(m_queue)]
    /\ UNCHANGED <<m_pool, m_freeList, m_queue, text, pushed, taken>>

\* Pop, with or without having looked: MPOP_EMPTY changes nothing.
Pop ==
    /\ m_pool = "live" /\ m_queue # <<>>
    /\ m_queue' = Tail(m_queue)
    /\ m_freeList' = m_freeList \union {Head(m_queue)}
    /\ taken' = taken + 1
    /\ front' = NoBuffer /\ seen' = NoMessage
    /\ UNCHANGED <<m_pool, text, pushed>>

Clear ==
    /\ m_pool = "live" /\ m_queue # <<>>
    /\ m_freeList' = m_freeList \union Range(m_queue)
    /\ m_queue' = <<>>
    /\ taken' = taken + Len(m_queue)
    /\ front' = NoBuffer /\ seen' = NoMessage
    /\ UNCHANGED <<m_pool, text, pushed>>

\* Uninit, which the destructor calls: the pool goes, what is queued stays queued.
Uninit ==
    /\ m_pool = "live"
    /\ m_pool' = "freed" /\ m_freeList' = {}
    /\ front' = NoBuffer /\ seen' = NoMessage
    /\ UNCHANGED <<m_queue, text, pushed, taken>>

MessageNext ==
    \/ InitPool \/ Uninit
    \/ \E m \in Messages : Push(m)
    \/ FrontMessage \/ Pop \/ Clear

MessageSpec == MessageInit /\ [][MessageNext]_mqVars

-----------------------------------------------------------------------------
\* The message the consumer looks at without the lock is the oldest one pushed and
\* not yet removed, and stays as it was while producers push: its buffer is neither
\* free nor written again until the consumer's own Pop or Clear
\* (MessageQueue.cpp 68-117).
FrontStays ==
    front # NoBuffer =>
        /\ front \notin m_freeList
        /\ text[front] = seen
        /\ seen = pushed[taken + 1]
=============================================================================
