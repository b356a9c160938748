---------------------------- MODULE Baselib_proofs ----------------------------
(***************************************************************************)
(* The parts of Baselib that promise something on their own: the queue       *)
(* between a producer and the consumer, the object pool, the blocking        *)
(* socket and the record set, each for any numbers and any sequence of       *)
(* calls.  They share no state; a section here is a module of the model.     *)
(***************************************************************************)
EXTENDS MessageQueue, ObjectPool, SuperSocket, AdoRecordset,
        FiniteSetTheorems, SequenceTheorems, TLAPS

-----------------------------------------------------------------------------
(* MessageQueue.  FrontStays for any number of buffers, messages and        *)
(* producers.  The queue and the messages answered true for agree position  *)
(* by position: this is the FIFO order, and what the consumer sees is its   *)
(* first element.                                                           *)

QueueType ==
    /\ m_pool \in {"none", "live", "freed"}
    /\ m_freeList \subseteq Buffers /\ m_queue \in Seq(Buffers)
    /\ text \in [Buffers -> Messages \union {NoMessage}]
    /\ pushed \in Seq(Messages) /\ taken \in Nat
    /\ m_pool = "none" => m_queue = <<>>

Slots == 1..Len(m_queue)

\* The queue holds the messages that were pushed and not taken, in the order of Push.
InOrder ==
    /\ Len(pushed) = taken + Len(m_queue)
    /\ \A i \in Slots : text[m_queue[i]] = pushed[taken + i]

\* A queued buffer is not free, and queued once.
QueueOwns ==
    /\ \A i \in Slots : m_queue[i] \notin m_freeList
    /\ \A i, j \in Slots : m_queue[i] = m_queue[j] => i = j

\* The consumer looks into the first buffer of the queue.
FrontIsFirst == front # NoBuffer => 1 \in Slots /\ front = m_queue[1] /\ seen = text[front]

MessageInv == QueueType /\ InOrder /\ QueueOwns /\ FrontIsFirst

LEMMA MessageInvInit == MessageInit => MessageInv
<1> SUFFICES ASSUME MessageInit PROVE MessageInv
  OBVIOUS
<1>1. m_queue \in Seq(Buffers) /\ pushed \in Seq(Messages)
  BY EmptySeq DEF MessageInit
<1>2. m_queue = <<>> /\ pushed = <<>> /\ Len(<<>>) = 0
  BY DEF MessageInit
<1>3. QueueType
  BY <1>1 DEF MessageInit, QueueType
<1>4. InOrder /\ QueueOwns /\ FrontIsFirst
  BY <1>2 DEF MessageInit, InOrder, QueueOwns, FrontIsFirst, Slots
<1>5. QED BY <1>3, <1>4 DEF MessageInv

\* What a step that removes the first message does to the slots.
LEMMA TailSlots ==
    ASSUME m_queue \in Seq(Buffers), m_queue # <<>>, m_queue' = Tail(m_queue)
    PROVE  /\ 1 \in Slots /\ m_queue[1] = Head(m_queue) /\ Head(m_queue) \in Buffers
           /\ m_queue' \in Seq(Buffers) /\ Len(m_queue') = Len(m_queue) - 1
           /\ \A i \in Slots' : /\ i \in Nat /\ i + 1 \in Slots /\ i + 1 # 1
                                /\ m_queue'[i] = m_queue[i + 1]
BY HeadTailProperties DEF Slots

LEMMA MessageInvStep == MessageInv /\ [MessageNext]_mqVars => MessageInv'
<1> SUFFICES ASSUME MessageInv, [MessageNext]_mqVars PROVE MessageInv'
  OBVIOUS
<1>0. QueueType /\ InOrder /\ QueueOwns /\ FrontIsFirst
  BY DEF MessageInv
<1>1. ASSUME InitPool PROVE MessageInv'
  <2>1. m_queue = <<>>
    BY <1>0, <1>1 DEF InitPool, QueueType
  <2>2. QED
    BY <1>0, <1>1, <2>1
    DEF InitPool, MessageInv, QueueType, InOrder, QueueOwns, FrontIsFirst, Slots
<1>2. ASSUME Uninit PROVE MessageInv'
  BY <1>0, <1>2 DEF Uninit, MessageInv, QueueType, InOrder, QueueOwns, FrontIsFirst, Slots
<1>3. ASSUME NEW m \in Messages, Push(m) PROVE MessageInv'
  <2>1. PICK b \in m_freeList :
           /\ m_freeList' = m_freeList \ {b} /\ m_queue' = Append(m_queue, b)
           /\ text' = [text EXCEPT ![b] = m]
    BY <1>3 DEF Push
  <2>2. pushed' = Append(pushed, m) /\ UNCHANGED <<m_pool, taken, front, seen>>
    BY <1>3 DEF Push
  <2>3. b \in Buffers /\ m_queue \in Seq(Buffers) /\ pushed \in Seq(Messages) /\ taken \in Nat
    BY <1>0 DEF QueueType
  <2> DEFINE n == Len(m_queue)
  <2>4. /\ n \in Nat /\ Len(m_queue') = n + 1 /\ m_queue'[n + 1] = b
        /\ m_queue' \in Seq(Buffers)
        /\ \A i \in 1..n : m_queue'[i] = m_queue[i]
    BY <2>1, <2>3
  <2>5. /\ Len(pushed') = Len(pushed) + 1 /\ pushed'[Len(pushed) + 1] = m
        /\ pushed' \in Seq(Messages) /\ Len(pushed) \in Nat
        /\ \A i \in 1..Len(pushed) : pushed'[i] = pushed[i]
    BY <2>2, <2>3
  <2>6. Len(pushed) = taken + n
    BY <1>0 DEF InOrder
  <2>7. \A i \in 1..n : m_queue[i] \in Buffers /\ m_queue[i] # b
    BY <1>0, <2>3 DEF QueueOwns, Slots
  <2>8. text'[b] = m /\ \A c \in Buffers : c # b => text'[c] = text[c]
    BY <1>0, <2>1, <2>3 DEF QueueType
  <2>9. Slots' = 1..(n + 1) /\ Slots = 1..n
    BY <2>4 DEF Slots
  <2> HIDE DEF n
  <2>10. QueueType'
    BY <1>0, <1>3, <2>1, <2>2, <2>4, <2>5 DEF QueueType, Push
  <2>11. InOrder'
    <3>1. Len(pushed') = taken' + Len(m_queue')
      BY <2>2, <2>3, <2>4, <2>5, <2>6
    <3>2. ASSUME NEW i \in 1..n PROVE text'[m_queue'[i]] = pushed'[taken' + i]
      <4>1. text[m_queue[i]] = pushed[taken + i]
        BY <1>0, <2>9 DEF InOrder
      <4>2. taken + i \in 1..Len(pushed)
        BY <2>3, <2>4, <2>6
      <4>3. taken' = taken
        BY <2>2
      <4>4. QED BY <2>4, <2>5, <2>7, <2>8, <4>1, <4>2, <4>3
    <3>3. text'[m_queue'[n + 1]] = pushed'[taken' + (n + 1)]
      BY <2>2, <2>3, <2>4, <2>5, <2>6, <2>8
    <3>4. \A i \in 1..(n + 1) : i \in 1..n \/ i = n + 1
      BY <2>4
    <3>5. QED BY <2>9, <3>1, <3>2, <3>3, <3>4 DEF InOrder
  <2>12. QueueOwns'
    <3>1. m_freeList' = m_freeList \ {b}
      BY <2>1
    <3>2. \A i \in 1..(n + 1) : i \in 1..n \/ i = n + 1
      BY <2>4
    <3>3. QED BY <1>0, <2>4, <2>7, <2>9, <3>1, <3>2 DEF QueueOwns
  <2>13. FrontIsFirst'
    <3>1. front' = front /\ seen' = seen
      BY <2>2
    <3>2. 1 \in 1..n => 1 \in 1..(n + 1)
      BY <2>4
    <3>3. QED BY <1>0, <2>4, <2>7, <2>8, <2>9, <3>1, <3>2 DEF FrontIsFirst
  <2>14. QED BY <2>10, <2>11, <2>12, <2>13 DEF MessageInv
<1>4. ASSUME FrontMessage PROVE MessageInv'
  <2>1. 1 \in Slots /\ m_queue[1] = Head(m_queue)
    BY <1>0, <1>4 DEF FrontMessage, QueueType, Slots
  <2>2. QED
    BY <1>0, <1>4, <2>1
    DEF FrontMessage, MessageInv, QueueType, InOrder, QueueOwns, FrontIsFirst, Slots
<1>5. ASSUME Pop PROVE MessageInv'
  <2>0. m_queue \in Seq(Buffers) /\ m_queue # <<>> /\ m_queue' = Tail(m_queue)
    BY <1>0, <1>5 DEF Pop, QueueType
  <2>1. /\ m_freeList' = m_freeList \union {Head(m_queue)} /\ taken' = taken + 1
        /\ front' = NoBuffer /\ UNCHANGED <<m_pool, text, pushed>>
    BY <1>5 DEF Pop
  <2>2. /\ 1 \in Slots /\ m_queue[1] = Head(m_queue) /\ Head(m_queue) \in Buffers
        /\ m_queue' \in Seq(Buffers) /\ Len(m_queue') = Len(m_queue) - 1
        /\ \A i \in Slots' : /\ i \in Nat /\ i + 1 \in Slots /\ i + 1 # 1
                             /\ m_queue'[i] = m_queue[i + 1]
    BY <2>0, TailSlots
  <2>3. QueueType'
    BY <1>0, <1>5, <2>1, <2>2 DEF QueueType, Pop
  <2>4. InOrder'
    <3>1. Len(m_queue) \in Nat /\ taken \in Nat
      BY <1>0, <2>0 DEF QueueType
    <3>2. Len(pushed') = taken' + Len(m_queue')
      BY <1>0, <2>1, <2>2, <3>1 DEF InOrder
    <3>3. ASSUME NEW i \in Slots' PROVE text'[m_queue'[i]] = pushed'[taken' + i]
      <4>1. text[m_queue[i + 1]] = pushed[taken + (i + 1)]
        BY <1>0, <2>2 DEF InOrder
      <4>2. taken + (i + 1) = taken' + i
        BY <2>1, <2>2, <3>1
      <4>3. QED BY <2>1, <2>2, <4>1, <4>2
    <3>4. QED BY <3>2, <3>3 DEF InOrder
  <2>5. QueueOwns'
    BY <1>0, <2>1, <2>2 DEF QueueOwns
  <2>6. FrontIsFirst'
    BY <2>1 DEF FrontIsFirst
  <2>7. QED BY <2>3, <2>4, <2>5, <2>6 DEF MessageInv
<1>6. ASSUME Clear PROVE MessageInv'
  <2>1. /\ m_freeList' = m_freeList \union Range(m_queue) /\ taken' = taken + Len(m_queue)
        /\ m_queue' = <<>> /\ front' = NoBuffer /\ UNCHANGED <<m_pool, text, pushed>>
    BY <1>6 DEF Clear
  <2>2. Range(m_queue) \subseteq Buffers
    <3>1. DOMAIN m_queue = 1..Len(m_queue) /\ \A i \in 1..Len(m_queue) : m_queue[i] \in Buffers
      BY <1>0 DEF QueueType
    <3>2. QED BY <3>1 DEF Range
  <2>3. m_queue' \in Seq(Buffers) /\ Len(m_queue') = 0 /\ Slots' = {}
    BY <2>1, EmptySeq DEF Slots
  <2>4. Len(m_queue) \in Nat /\ taken \in Nat /\ taken' \in Nat
    BY <1>0, <2>1 DEF QueueType
  <2>5. QueueType'
    BY <1>0, <2>1, <2>2, <2>3, <2>4 DEF QueueType
  <2>6. InOrder'
    BY <1>0, <2>1, <2>3, <2>4 DEF InOrder
  <2>7. QueueOwns' /\ FrontIsFirst'
    BY <2>1, <2>3 DEF QueueOwns, FrontIsFirst
  <2>8. QED BY <2>5, <2>6, <2>7 DEF MessageInv
<1>7. ASSUME UNCHANGED mqVars PROVE MessageInv'
  BY <1>0, <1>7
  DEF mqVars, MessageInv, QueueType, InOrder, QueueOwns, FrontIsFirst, Slots
<1>8. QED BY <1>1, <1>2, <1>3, <1>4, <1>5, <1>6, <1>7 DEF MessageNext

LEMMA FirstIsOldest == MessageInv => FrontStays
<1> SUFFICES ASSUME MessageInv, front # NoBuffer
             PROVE  front \notin m_freeList /\ text[front] = seen /\ seen = pushed[taken + 1]
  BY DEF FrontStays
<1>1. 1 \in Slots /\ front = m_queue[1] /\ seen = text[front]
  BY DEF MessageInv, FrontIsFirst
<1>2. QED BY <1>1 DEF MessageInv, QueueOwns, InOrder

\* MessageQueue::Front: the message a consumer reads without the lock is the oldest one
\* not removed, and its buffer is not handed out again, however many threads push.
THEOREM FrontAlwaysStays == MessageSpec => []FrontStays
BY MessageInvInit, MessageInvStep, FirstIsOldest, PTL DEF MessageSpec

-----------------------------------------------------------------------------
(* FixedObjectPool.  EachHasItsOwn for any number of objects and borrowers. *)
(* The semaphore and the list are counted apart, but the threads between    *)
(* the two make up the difference, so Acquire never finds the list empty.   *)

Pool == Range(Objects)
Counted == {t \in Borrowers : at[t] = "counted"}

PoolType ==
    /\ m_free \in Seq(Pool) /\ m_count \in Nat
    /\ at \in [Borrowers -> {"out", "counted", "in"}]
    /\ m_obj \in [Borrowers -> Pool \union {Null}]
    /\ \A t \in Borrowers : at[t] # "in" => m_obj[t] = Null

Covered == Cardinality(Counted) + m_count = Len(m_free)

\* No object is twice on the list, on the list and lent, or lent twice.
Places == 1..Len(m_free)
LentOnce ==
    /\ \A i, j \in Places : m_free[i] = m_free[j] => i = j
    /\ \A i \in Places, t \in Borrowers : m_free[i] # m_obj[t]
    /\ \A s, t \in Borrowers : m_obj[s] = m_obj[t] /\ m_obj[s] # Null => s = t

PoolInv == PoolType /\ Covered /\ LentOnce

LEMMA Basics ==
    /\ Null \notin Pool
    /\ IsFiniteSet(Counted) /\ Cardinality(Counted) \in Nat
<1>1. Counted \subseteq Borrowers
  BY DEF Counted
<1>2. QED BY <1>1, ObjectPoolAssumption, FS_Subset, FS_CardinalityType DEF Pool

LEMMA PoolInvInit == PoolInit => PoolInv
<1> SUFFICES ASSUME PoolInit PROVE PoolInv
  OBVIOUS
<1>1. Objects \in Seq(Pool) /\ DOMAIN Objects = 1..Len(Objects) /\ Len(Objects) \in Nat
  BY ObjectPoolAssumption, LenProperties DEF Pool
<1>2. PoolType
  BY <1>1 DEF PoolInit, PoolType
<1>3. Covered
  <2>1. Counted = {}
    BY DEF PoolInit, Counted
  <2>2. QED BY <1>1, <2>1, FS_EmptySet DEF PoolInit, Covered
<1>4. LentOnce
  <2>1. \A i, j \in 1..Len(Objects) : Objects[i] = Objects[j] => i = j
    BY <1>1, ObjectPoolAssumption DEF IsInjective
  <2>2. \A i \in 1..Len(Objects) : Objects[i] # Null
    BY <1>1, Basics
  <2>3. QED BY <2>1, <2>2 DEF PoolInit, LentOnce, Places
<1>5. QED BY <1>2, <1>3, <1>4 DEF PoolInv

LEMMA PoolInvStep == PoolInv /\ [PoolNext]_poolVars => PoolInv'
<1> SUFFICES ASSUME PoolInv, [PoolNext]_poolVars PROVE PoolInv'
  OBVIOUS
<1>0. PoolType /\ Covered /\ LentOnce /\ Len(m_free) \in Nat /\ m_count \in Nat
  BY LenProperties DEF PoolInv, PoolType
<1>1. ASSUME NEW t \in Borrowers, Wait(t) PROVE PoolInv'
  <2>1. PoolType' /\ LentOnce'
    BY <1>0, <1>1 DEF Wait, PoolType, LentOnce, Places
  <2>2. CASE m_count > 0
    <3>1. Counted' = Counted \union {t} /\ t \notin Counted /\ m_count' = m_count - 1
      BY <1>0, <1>1, <2>2 DEF Wait, Counted, PoolType
    <3>2. Cardinality(Counted \union {t}) = Cardinality(Counted) + 1
      BY <3>1, Basics, FS_AddElement
    <3>3. QED BY <1>0, <1>1, <2>1, <3>1, <3>2, Basics DEF Wait, PoolInv, Covered
  <2>3. CASE m_count = 0
    <3>1. Counted' = Counted /\ m_count' = m_count /\ m_free' = m_free
      BY <1>0, <1>1, <2>3 DEF Wait, Counted, PoolType
    <3>2. QED BY <1>0, <2>1, <3>1 DEF PoolInv, Covered
  <2>4. QED BY <1>0, <2>2, <2>3
<1>2. ASSUME NEW t \in Borrowers, TakeBack(t) PROVE PoolInv'
  <2> DEFINE n == Len(m_free)
  <2>1. t \in Counted /\ Counted' = Counted \ {t} /\ m_count' = m_count
    BY <1>0, <1>2 DEF TakeBack, Counted, PoolType
  <2>2. Cardinality(Counted \ {t}) = Cardinality(Counted) - 1
    BY <2>1, Basics, FS_RemoveElement
  <2>3. Cardinality(Counted) # 0
    BY <2>1, Basics, FS_EmptySet
  <2>4. n > 0 /\ m_free \in Seq(Pool)
    BY <1>0, <2>3, Basics DEF Covered, PoolType
  <2>5. /\ m_free' = SubSeq(m_free, 1, n - 1)
        /\ m_obj' = [m_obj EXCEPT ![t] = m_free[n]]
    BY <1>2 DEF TakeBack, Front, Last
  <2>6. /\ m_free' \in Seq(Pool) /\ Len(m_free') = n - 1
        /\ \A i \in 1..(n - 1) : m_free'[i] = m_free[i]
    <3>1. n \in Nat /\ n - 1 \in Int /\ 1 \in Int
      BY <1>0
    <3>2. \A i \in 1..(n - 1) : m_free[i] \in Pool
      BY <2>4, <3>1
    <3>3. /\ SubSeq(m_free, 1, n - 1) \in Seq(Pool)
          /\ Len(SubSeq(m_free, 1, n - 1)) = IF 1 <= n - 1 THEN n - 1 - 1 + 1 ELSE 0
          /\ \A i \in 1..(n - 1 - 1 + 1) : SubSeq(m_free, 1, n - 1)[i] = m_free[1 + i - 1]
      <4> HIDE DEF n
      <4>1. QED BY <3>1, <3>2, SubSeqProperties
    <3>4. /\ n - 1 - 1 + 1 = n - 1 /\ \A i \in 1..(n - 1) : 1 + i - 1 = i
          /\ n > 0
      BY <2>4, <3>1
    <3> HIDE DEF n
    <3>5. QED BY <2>5, <3>1, <3>3, <3>4
  <2>7. m_free[n] \in Pool /\ n \in Places
    BY <1>0, <2>4 DEF Places
  <2>8. m_obj'[t] = m_free[n] /\ \A s \in Borrowers : s # t => m_obj'[s] = m_obj[s]
    BY <1>0, <2>5 DEF PoolType
  <2>9. PoolType'
    BY <1>0, <1>2, <2>5, <2>6, <2>7 DEF PoolType, TakeBack
  <2>10. Covered'
    BY <1>0, <2>1, <2>2, <2>6, Basics DEF Covered
  <2>11. Places' = 1..(n - 1) /\ \A i \in Places' : i \in Places /\ i # n /\ m_free'[i] = m_free[i]
    BY <1>0, <2>6 DEF Places
  <2> HIDE DEF n
  <2>12. LentOnce'
    BY <1>0, <2>7, <2>8, <2>11 DEF LentOnce
  <2>13. QED BY <2>9, <2>10, <2>12 DEF PoolInv
<1>3. ASSUME NEW t \in Borrowers, Release(t) PROVE PoolInv'
  <2>1. Counted' = Counted
    BY <1>0, <1>3 DEF Release, Counted, PoolType
  <2>2. m_obj'[t] = Null /\ \A s \in Borrowers : s # t => m_obj'[s] = m_obj[s]
    BY <1>0, <1>3 DEF Release, PoolType
  <2>3. CASE m_obj[t] = Null
    <3>1. UNCHANGED <<m_free, m_count>> /\ \A s \in Borrowers : m_obj'[s] = m_obj[s]
      BY <1>3, <2>2, <2>3 DEF Release
    <3>2. PoolType'
      BY <1>0, <1>3, <3>1 DEF Release, PoolType
    <3>3. QED BY <1>0, <2>1, <3>1, <3>2 DEF PoolInv, Covered, LentOnce, Places
  <2>4. CASE m_obj[t] # Null
    <3> DEFINE n == Len(m_free)
    <3>1. m_free' = Append(m_free, m_obj[t]) /\ m_count' = m_count + 1
      BY <1>3, <2>4 DEF Release
    <3>2. m_obj[t] \in Pool /\ m_free \in Seq(Pool)
      BY <1>0, <2>4 DEF PoolType
    <3>3. /\ m_free' \in Seq(Pool) /\ Len(m_free') = n + 1 /\ m_free'[n + 1] = m_obj[t]
          /\ \A i \in 1..n : m_free'[i] = m_free[i]
      BY <3>1, <3>2
    <3>4. PoolType'
      BY <1>0, <1>3, <3>1, <3>3 DEF Release, PoolType
    <3>5. Covered'
      BY <1>0, <2>1, <3>1, <3>3, Basics, SMTT(30) DEF Covered
    <3>6. /\ Places' = Places \union {n + 1} /\ n + 1 \notin Places
          /\ \A i \in Places : m_free'[i] = m_free[i] /\ m_free[i] \in Pool
      BY <1>0, <3>2, <3>3 DEF Places
    <3>7. m_free'[n + 1] = m_obj[t]
      BY <3>3
    <3> HIDE DEF n
    <3>8. LentOnce'
      BY <1>0, <2>2, <2>4, <3>2, <3>6, <3>7, Basics DEF LentOnce
    <3>9. QED BY <3>4, <3>5, <3>8 DEF PoolInv
  <2>5. QED BY <2>3, <2>4
<1>4. ASSUME UNCHANGED poolVars PROVE PoolInv'
  BY <1>0, <1>4 DEF poolVars, PoolInv, PoolType, Covered, Counted, LentOnce, Places
<1>5. QED BY <1>1, <1>2, <1>3, <1>4 DEF PoolNext

LEMMA PoolInvOwns == PoolInv => EachHasItsOwn
<1> SUFFICES ASSUME PoolInv PROVE EachHasItsOwn
  OBVIOUS
<1>1. Cardinality({t \in Borrowers : at[t] = "counted"}) + m_count = Len(m_free)
  BY DEF PoolInv, Covered, Counted
<1>2. \A s, t \in Borrowers : s # t /\ m_obj[s] = m_obj[t] => m_obj[s] = Null
  BY DEF PoolInv, LentOnce
<1>3. \A t \in Borrowers : ~Contains(m_free, m_obj[t])
  BY DEF PoolInv, LentOnce, Places, Contains
<1>4. QED BY <1>1, <1>2, <1>3 DEF EachHasItsOwn

\* FixedObjectPool: Acquire takes the semaphore and the list one after the other, and
\* still finds an object that no other borrower has, for any number of either.
THEOREM EachAlwaysHasItsOwn == PoolSpec => []EachHasItsOwn
BY PoolInvInit, PoolInvStep, PoolInvOwns, PTL DEF PoolSpec

-----------------------------------------------------------------------------
(* SuperSocket.  DeadlineKept for every modulus of the tick count, every    *)
(* time-out that fits in it and every place the count may wrap.  The        *)
(* invariant says that the two tick counts a call compares still tell the   *)
(* time between them.                                                       *)

Ticks == 0 .. Wrap - 1

SocketTypeOK ==
    /\ tick \in Ticks /\ start \in Ticks /\ elapsed \in Ticks
    /\ timeoutMs \in Int /\ left \in Int
    /\ call \in {"none", "connect", "recv", "send"}
    /\ place \in {"top", "wait", "io"}

\* The count has come from start to tick in elapsed steps, and wrapped at most once.
Measured ==
    call # "none" => tick = start + elapsed \/ tick = start + elapsed - Wrap

SocketInv == SocketTypeOK /\ Measured /\ DeadlineKept

\* What the subtraction of two tick counts gives, wrapped or not.
LEMMA DiffIsElapsed ==
    SocketTypeOK /\ Measured /\ call # "none" => TickDiff(tick, start) = elapsed
BY SocketAssumption DEF SocketTypeOK, Measured, TickDiff, Ticks

LEMMA NextTick ==
    ASSUME NEW n \in Ticks
    PROVE  (n + 1) % Wrap = IF n + 1 = Wrap THEN 0 ELSE n + 1
<1>1. Wrap \in Nat /\ Wrap > 0 /\ n \in Nat /\ n + 1 <= Wrap
  BY SocketAssumption DEF Ticks
<1>2. CASE n + 1 = Wrap
  BY <1>1, <1>2, Z3
<1>3. CASE n + 1 # Wrap
  BY <1>1, <1>3, Z3
<1>4. QED BY <1>2, <1>3

LEMMA SocketInvInit == SocketInit => SocketInv
<1> SUFFICES ASSUME SocketInit PROVE SocketInv
  OBVIOUS
<1>1. 0 \in Ticks
  BY SocketAssumption DEF Ticks
<1>2. SocketTypeOK
  BY <1>1 DEF SocketInit, SocketTypeOK, Ticks
<1>3. Measured /\ DeadlineKept
  BY DEF SocketInit, Measured, DeadlineKept
<1>4. QED BY <1>2, <1>3 DEF SocketInv

LEMMA SocketInvStep == SocketInv /\ [SocketNext]_sockVars => SocketInv'
<1> SUFFICES ASSUME SocketInv, [SocketNext]_sockVars PROVE SocketInv'
  OBVIOUS
<1> USE SocketAssumption DEF SocketInv, SocketTypeOK, Measured, DeadlineKept, Ticks
<1>1. ASSUME NEW t \in Timeouts, Connect(t) PROVE SocketInv'
  <2>1. elapsed' = 0 /\ tick' = tick /\ 0 \in 0 .. Wrap - 1
    BY <1>1 DEF Connect
  <2>2. CASE call' = "none" /\ UNCHANGED <<place, left, timeoutMs, start>>
    BY <2>1, <2>2
  <2>3. CASE call' = "connect" /\ timeoutMs' = t /\ start' = tick /\ WaitEvent(t)
    <3>1. t \in Int
      OBVIOUS
    <3>2. left' = (IF t < 0 THEN -1 ELSE t) /\ place' = "wait"
      BY <2>3 DEF WaitEvent, Forever
    <3>3. QED BY <2>1, <2>3, <3>1, <3>2
  <2>4. QED BY <1>1, <2>2, <2>3 DEF Connect, Return
<1>2. ASSUME NEW t \in Timeouts, NEW c \in {"recv", "send"}, Transfer(c, t) PROVE SocketInv'
  BY <1>2 DEF Transfer
<1>3. ASSUME LoopTop PROVE SocketInv'
  <2>1. TickDiff(tick, start) = elapsed
    BY <1>3, DiffIsElapsed DEF LoopTop
  <2>2. QED BY <1>3, <2>1 DEF LoopTop, WaitEvent, Return, argVars, Forever
<1>4. ASSUME Ready PROVE SocketInv'
  BY <1>4 DEF Ready, argVars
<1>5. ASSUME WaitExpires PROVE SocketInv'
  BY <1>5 DEF WaitExpires, Return
<1>6. ASSUME Connected PROVE SocketInv'
  BY <1>6 DEF Connected, Return
<1>7. ASSUME MoveBytes PROVE SocketInv'
  BY <1>7 DEF MoveBytes, Return, argVars
<1>8. ASSUME Close PROVE SocketInv'
  BY <1>8 DEF Close, argVars
<1>9. ASSUME Tick PROVE SocketInv'
  <2>1. tick' = IF tick + 1 = Wrap THEN 0 ELSE tick + 1
    BY <1>9, NextTick DEF Tick
  <2>2. elapsed' = elapsed + 1 /\ elapsed' \in Ticks
    BY <1>9 DEF Tick
  <2>3. SocketTypeOK'
    BY <1>9, <2>1, <2>2 DEF Tick, argVars
  <2>4. Measured'
    BY <1>9, <2>1, <2>2 DEF Tick, argVars
  <2>5. DeadlineKept'
    BY <1>9, <2>2 DEF Tick, argVars
  <2>6. QED BY <2>3, <2>4, <2>5
<1>10. ASSUME UNCHANGED sockVars PROVE SocketInv'
  BY <1>10 DEF sockVars
<1>11. QED
  BY <1>1, <1>2, <1>3, <1>4, <1>5, <1>6, <1>7, <1>8, <1>9, <1>10 DEF SocketNext

\* WaitEvent and TickDiff in Connect, RecvAll and SendAll: no call is about to wait past
\* its time-out, wherever the 32-bit count wraps.
THEOREM DeadlineAlwaysKept == SocketSpec => []DeadlineKept
<1>1. SocketInv => DeadlineKept
  BY DEF SocketInv
<1>2. QED BY SocketInvInit, SocketInvStep, <1>1, PTL DEF SocketSpec

-----------------------------------------------------------------------------
(* CADORecordset.  UpdateKeepsItsWord for any values and any sequence of    *)
(* calls.  It needs to know where the values of an edit are: those not      *)
(* answered for yet are in ADO's buffer or saved by ADO on its own, and     *)
(* what was answered for is never in the buffer again.                      *)

\* A value of the edit is in the buffer, or ADO has saved it on a move.
MineHeld == mine \subseteq buffered \union implicit

\* What is saved, and not by ADO itself, is nowhere in an edit.
SavedDone == saved \intersect mine \subseteq implicit

\* A value in the buffer has no answer yet.
BufferFresh ==
    /\ buffered \intersect withdrawn = {}
    /\ implicit \subseteq saved

WordInv == MineHeld /\ SavedDone /\ BufferFresh /\ UpdateKeepsItsWord

LEMMA WordInvInit == AdoInit => WordInv
BY DEF AdoInit, WordInv, MineHeld, SavedDone, BufferFresh, UpdateKeepsItsWord

LEMMA WordInvStep == WordInv /\ [AdoNext]_adoVars => WordInv'
<1> SUFFICES ASSUME WordInv, [AdoNext]_adoVars PROVE WordInv'
  OBVIOUS
<1> USE DEF WordInv, MineHeld, SavedDone, BufferFresh, UpdateKeepsItsWord
<1>1. ASSUME OpenConnection PROVE WordInv'
  BY <1>1 DEF OpenConnection, tableVars
<1>2. ASSUME CloseConnection PROVE WordInv'
  BY <1>2 DEF CloseConnection, AdoCancel
<1>3. ASSUME OpenRecordset PROVE WordInv'
  BY <1>3 DEF OpenRecordset, EndEdit, AdoCancel
<1>4. ASSUME CloseRecordset PROVE WordInv'
  BY <1>4 DEF CloseRecordset, EndEdit, AdoCancel
<1>5. ASSUME Edit PROVE WordInv'
  BY <1>5 DEF Edit, tableVars
<1>6. ASSUME AddNew PROVE WordInv'
  BY <1>6 DEF AddNew
<1>7. ASSUME Update PROVE WordInv'
  BY <1>7 DEF Update, AdoSave, AdoCancel
<1>8. ASSUME CancelUpdate PROVE WordInv'
  BY <1>8 DEF CancelUpdate, AdoCancel
<1>9. ASSUME NEW v \in Values, PutFieldValue(v) PROVE WordInv'
  BY <1>9 DEF PutFieldValue, tableVars
<1>10. ASSUME NEW v \in Values, AppendChunk(v) PROVE WordInv'
  BY <1>10 DEF AppendChunk, tableVars
<1>11. ASSUME NEW v \in Values, AddNewBound(v) PROVE WordInv'
  BY <1>11 DEF AddNewBound, AdoCancel
<1>12. ASSUME Delete PROVE WordInv'
  BY <1>12 DEF Delete, AdoCancel
<1>13. ASSUME Move PROVE WordInv'
  BY <1>13 DEF Move, SaveBefore, AdoSave
<1>14. ASSUME UNCHANGED adoVars PROVE WordInv'
  BY <1>14 DEF adoVars
<1>15. QED
  BY <1>1, <1>2, <1>3, <1>4, <1>5, <1>6, <1>7, <1>8, <1>9, <1>10, <1>11, <1>12, <1>13, <1>14
  DEF AdoNext

\* CADORecordset: what an Update returned TRUE for is in the table, and what was refused
\* or given up never gets there except by ADO's own saving, whatever the calls.
THEOREM UpdateAlwaysKeepsItsWord == AdoSpec => []UpdateKeepsItsWord
<1>1. WordInv => UpdateKeepsItsWord
  BY DEF WordInv
<1>2. QED BY WordInvInit, WordInvStep, <1>1, PTL DEF AdoSpec

=============================================================================
