-------------------------- MODULE LogManager_proofs --------------------------
(***************************************************************************)
(* LinesInOrder for any number of cells, packets and writing threads, with  *)
(* disks that may fail and a Join that may end the thread.  Every packet is *)
(* in one place: free, with one writer, in the queue, or in the thread's    *)
(* hand (OwnInv); the packets not yet written hold the last cells logged    *)
(* (QueueInv), and the thread pops only what was pushed (TokenInv).  Only   *)
(* WriteLine moves a cell from the one side of Handled to the other.        *)
(***************************************************************************)
EXTENDS LogManager, SequenceTheorems, TLAPS

OwnerPCs == {"init", "open", "run", "join", "close", "done"}
IdlePCs == {"none", "test", "wait", "exit"}
HandPCs == {"guard", "append", "relock", "free"}
ThreadPCs == IdlePCs \cup HandPCs \cup {"lock", "pop", "killed"}

LogType ==
    /\ mpc \in OwnerPCs /\ lpc \in ThreadPCs
    /\ apc \in [Writers -> {"idle", "write", "push"}]
    /\ abuf \in [Writers -> Buffers \cup {NoBuffer}]
    /\ acell \in [Writers -> Cells \cup {NoBuffer}]
    /\ m_freeList \subseteq Buffers /\ m_queue \in Seq(Buffers) /\ m_sem \in Nat
    /\ DOMAIN content = Buffers
    /\ logged \in Seq(Cells) /\ file \in Seq(Cells) /\ archives \in Seq(Cells)
    /\ fileHandle \in {"none", "open", "null", "closed"} /\ diskFailed \in BOOLEAN

\* Nothing is logged before the files are there, nor is there a thread before Init.
StartInv ==
    /\ mpc \in {"init", "open"} =>
          /\ lpc \in IdlePCs /\ m_queue = <<>> /\ fileHandle = "none"
          /\ logged = <<>> /\ file = <<>> /\ archives = <<>>
          /\ \A w \in Writers : apc[w] = "idle"
    /\ mpc = "init" => lpc = "none"

\* A place for each packet: free, with one writer, once in the queue, or in hand.
Busy(w) == apc[w] \in {"write", "push"}
WriterInv ==
    \A w \in Writers : Busy(w) =>
        /\ abuf[w] \in Buffers \ m_freeList /\ acell[w] \in Cells
        /\ content[abuf[w]] = IF apc[w] = "write" THEN <<>> ELSE <<acell[w]>>
WritersApart == \A v, w \in Writers : Busy(v) /\ Busy(w) /\ abuf[v] = abuf[w] => v = w
QueueApart ==
    /\ \A i, j \in DOMAIN m_queue : m_queue[i] = m_queue[j] => i = j
    /\ \A i \in DOMAIN m_queue : m_queue[i] \notin m_freeList
    /\ \A i \in DOMAIN m_queue : \A w \in Writers : Busy(w) => abuf[w] # m_queue[i]
HandApart ==
    lpc \in HandPCs =>
        /\ lbuf \in Buffers \ m_freeList
        /\ \A i \in DOMAIN m_queue : m_queue[i] # lbuf
        /\ \A w \in Writers : Busy(w) => abuf[w] # lbuf
OwnInv == WriterInv /\ WritersApart /\ QueueApart /\ HandApart

\* One wake-up for each packet, or the thread on its way to it.
TokenInv ==
    lpc # "killed" =>
        Len(m_queue) = m_sem + (IF lpc \in {"lock", "pop"} THEN 1 ELSE 0)

\* Popped cells were logged first; the packets of the queue, and the one in the
\* thread's hand before them, hold the last cells that were logged.
Popped == Len(logged) - Len(m_queue)
QueueInv ==
    /\ Popped \in Nat
    /\ \A i \in 1..Len(m_queue) : content[m_queue[i]] = <<logged[Popped + i]>>
    /\ lpc \in {"guard", "append"} => Popped > 0 /\ content[lbuf] = <<logged[Popped]>>

\* The cells the thread is done with are in the files, if they pass.
Done == IF lpc \in {"guard", "append"} THEN Popped - 1 ELSE Popped
OrderInv ==
    ~diskFailed /\ lpc # "killed" /\ fileHandle = "open" =>
        Selected(archives \o file, logged, Done)

LogInv == LogType /\ StartInv /\ OwnInv /\ TokenInv /\ QueueInv /\ OrderInv

-----------------------------------------------------------------------------
(* The operators. *)

\* A line fits a packet: LogManager makes the packets as large as a LogCell.
CellsFit == Cells \subseteq Pieces /\ \A c \in Cells : c.len <= Capacity

\* Nothing written, nothing occupied.
LEMMA EmptyPacket == WritePos(<<>>) = 0
<1> DEFINE S == DOMAIN << >>
           rec(g) == [s \in SUBSET S |-> IF s = {} THEN 0
                       ELSE LET x == CHOOSE y \in s : TRUE
                            IN  <<>>[x].len + g[s \ {x}]]
<1>1. S = {}
  OBVIOUS
<1>2. \E g : g = rec(g)
  <2> DEFINE z == [s \in SUBSET S |-> 0]
  <2>1. z = rec(z)
    BY <1>1
  <2>2. QED BY <2>1
<1>3. WritePos(<<>>) = (CHOOSE g : g = rec(g))[S]
  BY DEF WritePos, FoldSeq, FoldFunction, FoldFunctionOnSet, MapThenFoldSet
<1>4. QED
  BY <1>1, <1>2, <1>3

\* The one Write of WriteV leaves its cell in the packet.
LEMMA CellIsWritten ==
    ASSUME CellsFit, NEW c \in Cells
    PROVE  Write(<<>>, c) = <<c>>
<1>1. c.len \in Nat /\ ~(0 + c.len > Capacity)
  BY PoolAssumption DEF CellsFit, Capacity, AlignUp
<1>2. ~(WritePos(<<>>) + c.len > Capacity)
  BY <1>1, EmptyPacket
<1>3. QED BY <1>2 DEF Write

\* No lines for no cells.
LEMMA SelectedNone == ASSUME NEW t PROVE Selected(<<>>, t, 0)
<1> DEFINE f == [i \in {} |-> i]
<1>1. DOMAIN <<>> = {} /\ 1..0 = {}
  OBVIOUS
<1>2. f \in [DOMAIN <<>> -> 1..0]
  BY <1>1
<1>3. /\ \A i, j \in DOMAIN <<>> : i < j => f[i] < f[j]
      /\ \A i \in DOMAIN <<>> : <<>>[i] = t[f[i]] /\ Passes(<<>>[i])
      /\ \A k \in 1..0 : Passes(t[k]) => \E i \in DOMAIN <<>> : f[i] = k
  BY <1>1
<1>4. QED BY <1>2, <1>3 DEF Selected

\* Only the first n cells count.
LEMMA SelectedDepends ==
    ASSUME NEW s, NEW t, NEW u, NEW n \in Nat, Selected(s, t, n),
           \A k \in 1..n : u[k] = t[k]
    PROVE  Selected(s, u, n)
BY DEF Selected

\* A cell that does not pass leaves no line, ...
LEMMA SelectedSkips ==
    ASSUME NEW s \in Seq(Cells), NEW t, NEW n \in Nat, Selected(s, t, n), ~Passes(t[n + 1])
    PROVE  Selected(s, t, n + 1)
<1>1. PICK f \in [DOMAIN s -> 1..n] :
         /\ \A i, j \in DOMAIN s : i < j => f[i] < f[j]
         /\ \A i \in DOMAIN s : s[i] = t[f[i]] /\ Passes(s[i])
         /\ \A k \in 1..n : Passes(t[k]) => \E i \in DOMAIN s : f[i] = k
  BY DEF Selected
<1>2. f \in [DOMAIN s -> 1..(n + 1)]
  OBVIOUS
<1>3. \A k \in 1..(n + 1) : Passes(t[k]) => \E i \in DOMAIN s : f[i] = k
  BY <1>1
<1>4. QED BY <1>1, <1>2, <1>3 DEF Selected

\* ... and one that does leaves the last.
LEMMA SelectedTakes ==
    ASSUME NEW s \in Seq(Cells), NEW t, NEW n \in Nat, Selected(s, t, n), Passes(t[n + 1])
    PROVE  Selected(Append(s, t[n + 1]), t, n + 1)
<1> DEFINE r == Append(s, t[n + 1])
           m == Len(s) + 1
<1>1. PICK f \in [DOMAIN s -> 1..n] :
         /\ \A i, j \in DOMAIN s : i < j => f[i] < f[j]
         /\ \A i \in DOMAIN s : s[i] = t[f[i]] /\ Passes(s[i])
         /\ \A k \in 1..n : Passes(t[k]) => \E i \in DOMAIN s : f[i] = k
  BY DEF Selected
<1> DEFINE g == [i \in DOMAIN r |-> IF i = m THEN n + 1 ELSE f[i]]
<1>2. DOMAIN r = 1..m /\ DOMAIN s = 1..(m - 1) /\ m \in Nat \ {0}
  OBVIOUS
<1>3. r[m] = t[n + 1] /\ \A i \in 1..(m - 1) : r[i] = s[i]
  OBVIOUS
<1> HIDE DEF r, m
<1>4. g \in [DOMAIN r -> 1..(n + 1)]
  BY <1>2
<1>5. \A i, j \in DOMAIN r : i < j => g[i] < g[j]
  BY <1>1, <1>2
<1>6. \A i \in DOMAIN r : r[i] = t[g[i]] /\ Passes(r[i])
  BY <1>1, <1>2, <1>3
<1>7. \A k \in 1..(n + 1) : Passes(t[k]) => \E i \in DOMAIN r : g[i] = k
  <2> SUFFICES ASSUME NEW k \in 1..(n + 1), Passes(t[k])
               PROVE  \E i \in DOMAIN r : g[i] = k
    OBVIOUS
  <2>1. CASE k = n + 1
    <3>1. m \in DOMAIN r /\ g[m] = n + 1
      BY <1>2
    <3>2. QED BY <2>1, <3>1
  <2>2. CASE k \in 1..n
    <3>1. PICK i \in DOMAIN s : f[i] = k
      BY <1>1, <2>2
    <3>2. i \in DOMAIN r /\ i # m
      BY <1>2
    <3>3. g[i] = k
      BY <3>1, <3>2
    <3>4. QED BY <3>2, <3>3
  <2>3. QED BY <2>1, <2>2
<1>8. QED BY <1>4, <1>5, <1>6, <1>7 DEF Selected, r

-----------------------------------------------------------------------------
(* Each part of the invariant, step by step. *)

LEMMA LogInvInit == LogInit => LogInv
<1> SUFFICES ASSUME LogInit PROVE LogInv
  OBVIOUS
<1> USE DEF LogInit, InitQueue
<1>1. LogType
  <2>1. m_queue \in Seq(Buffers) /\ <<>> \in Seq(Cells) /\ DOMAIN content = Buffers
    OBVIOUS
  <2>2. /\ apc \in [Writers -> {"idle", "write", "push"}]
        /\ abuf \in [Writers -> Buffers \cup {NoBuffer}]
        /\ acell \in [Writers -> Cells \cup {NoBuffer}]
    OBVIOUS
  <2>3. QED BY <2>1, <2>2 DEF LogType, OwnerPCs, ThreadPCs, IdlePCs
<1>2. StartInv /\ TokenInv /\ OrderInv
  BY DEF StartInv, IdlePCs, TokenInv, OrderInv
<1>3. OwnInv
  BY DEF OwnInv, WriterInv, WritersApart, QueueApart, HandApart, Busy, HandPCs
<1>4. QueueInv
  BY DEF QueueInv, Popped
<1>5. QED BY <1>1, <1>2, <1>3, <1>4 DEF LogInv

LEMMA TypeStep == ASSUME CellsFit, LogInv, [LogNext]_logVars PROVE LogType'
<1> USE DEF LogInv, LogType, OwnerPCs, ThreadPCs, IdlePCs, HandPCs
<1>1. CASE OpenLog
  BY <1>1 DEF OpenLog, InitPool, writerVars, fileVars, queueVars
<1>2. CASE SetLogLevel
  BY <1>2 DEF SetLogLevel, queueVars, threadVars, writerVars
<1>3. CASE UnInitLog
  BY <1>3 DEF UnInitLog, queueVars, threadVars, writerVars, fileVars
<1>4. CASE JoinLogger
  BY <1>4 DEF JoinLogger, queueVars, writerVars, fileVars
<1>5. CASE CloseFiles
  BY <1>5 DEF CloseFiles, queueVars, threadVars, writerVars
<1>6. ASSUME NEW w \in Writers, NEW c \in Cells, AllocCell(w, c) PROVE LogType'
  BY <1>6 DEF AllocCell, AllocWritePacket, ownerVars, threadVars, fileVars
<1>7. ASSUME NEW w \in Writers, FillCell(w) PROVE LogType'
  BY <1>7 DEF FillCell, ownerVars, threadVars, fileVars
<1>8. ASSUME NEW w \in Writers, PushCell(w) PROVE LogType'
  <2>1. abuf[w] \in Buffers /\ acell[w] \in Cells
    BY <1>8 DEF PushCell, OwnInv, WriterInv, Busy
  <2>2. QED BY <1>8, <2>1 DEF PushCell, Push, ownerVars, threadVars, fileVars
<1>9. CASE TestStop
  BY <1>9 DEF TestStop, queueVars, ownerVars, writerVars, fileVars
<1>10. CASE WaitCell
  BY <1>10 DEF WaitCell, SemWait, queueVars, ownerVars, writerVars, fileVars
<1>11. CASE LockQueue
  BY <1>11 DEF LockQueue, EnterLock, ownerVars, writerVars, fileVars
<1>12. CASE PopCell
  BY <1>12 DEF PopCell, PopLocked, ownerVars, writerVars, fileVars
<1>13. CASE LockFiles
  BY <1>13 DEF LockFiles, queueVars, ownerVars, writerVars, fileVars
<1>14. CASE WriteLine
  <2>1. content[lbuf][1] \in Cells
    BY <1>14 DEF WriteLine, QueueInv, Popped
  <2>2. archives \o file \in Seq(Cells)
    OBVIOUS
  <2> DEFINE c == content[lbuf][1]
  <2>3. CASE UNCHANGED fileVars
    BY <1>14, <2>3 DEF WriteLine, queueVars, ownerVars, writerVars, fileVars
  <2>4. CASE AppendLine(c)
    BY <1>14, <2>1, <2>4 DEF WriteLine, AppendLine, queueVars, ownerVars, writerVars
  <2>5. CASE Rotate(c)
    <3>1. <<c>> \in Seq(Cells)
      BY <2>1
    <3>2. file' \in Seq(Cells) /\ archives' \in Seq(Cells)
      <4>1. \/ archives' = archives \o file /\ file' \in {<<c>>, <<>>}
            \/ archives' = archives /\ file' = file
        BY <2>5 DEF Rotate
      <4>2. <<>> \in Seq(Cells)
        OBVIOUS
      <4>3. QED BY <2>2, <3>1, <4>1, <4>2
    <3>3. QED BY <1>14, <2>5, <3>2 DEF WriteLine, Rotate, queueVars, ownerVars, writerVars
  <2>6. QED BY <1>14, <2>3, <2>4, <2>5 DEF WriteLine
<1>15. CASE LockToFree
  BY <1>15 DEF LockToFree, EnterLock, ownerVars, writerVars, fileVars
<1>16. CASE FreeCell
  BY <1>16 DEF FreeCell, Release, ownerVars, writerVars, fileVars, OwnInv, HandApart
<1>17. CASE UNCHANGED logVars
  BY <1>17 DEF logVars, queueVars, ownerVars, threadVars, writerVars, fileVars
<1>18. QED
  BY <1>1, <1>2, <1>3, <1>4, <1>5, <1>6, <1>7, <1>8, <1>9, <1>10, <1>11, <1>12, <1>13, <1>14,
     <1>15, <1>16, <1>17 DEF LogNext

\* Before SetLogLevel there is nothing to log.
LEMMA StartStep == ASSUME LogInv, [LogNext]_logVars PROVE StartInv'
<1> USE DEF LogInv, LogType, StartInv, IdlePCs, Busy, TokenInv, HandPCs
<1>1. CASE OpenLog
  BY <1>1 DEF OpenLog, InitPool, writerVars, fileVars, queueVars
<1>2. CASE SetLogLevel
  BY <1>2 DEF SetLogLevel, queueVars, threadVars, writerVars
<1>3. CASE UnInitLog
  BY <1>3 DEF UnInitLog, queueVars, threadVars, writerVars, fileVars
<1>4. CASE JoinLogger
  BY <1>4 DEF JoinLogger, queueVars, writerVars, fileVars
<1>5. CASE CloseFiles
  BY <1>5 DEF CloseFiles, queueVars, threadVars, writerVars
<1>6. ASSUME NEW w \in Writers, NEW c \in Cells, AllocCell(w, c) PROVE StartInv'
  BY <1>6 DEF AllocCell, AllocWritePacket, ownerVars, threadVars, fileVars
<1>7. ASSUME NEW w \in Writers, FillCell(w) PROVE StartInv'
  BY <1>7 DEF FillCell, ownerVars, threadVars, fileVars
<1>8. ASSUME NEW w \in Writers, PushCell(w) PROVE StartInv'
  BY <1>8 DEF PushCell, Push, ownerVars, threadVars, fileVars
<1>9. CASE TestStop
  BY <1>9 DEF TestStop, queueVars, ownerVars, writerVars, fileVars
<1>10. CASE WaitCell
  BY <1>10 DEF WaitCell, SemWait, queueVars, ownerVars, writerVars, fileVars
<1>11. CASE LockQueue
  BY <1>11 DEF LockQueue, EnterLock, ownerVars, writerVars, fileVars
<1>12. CASE PopCell
  BY <1>12 DEF PopCell, PopLocked, ownerVars, writerVars, fileVars
<1>13. CASE LockFiles
  BY <1>13 DEF LockFiles, queueVars, ownerVars, writerVars, fileVars
<1>14. CASE WriteLine
  BY <1>14 DEF WriteLine, AppendLine, Rotate, queueVars, ownerVars, writerVars, fileVars
<1>15. CASE LockToFree
  BY <1>15 DEF LockToFree, EnterLock, ownerVars, writerVars, fileVars
<1>16. CASE FreeCell
  BY <1>16 DEF FreeCell, Release, ownerVars, writerVars, fileVars
<1>17. CASE UNCHANGED logVars
  BY <1>17 DEF logVars, queueVars, ownerVars, threadVars, writerVars, fileVars
<1>18. QED
  BY <1>1, <1>2, <1>3, <1>4, <1>5, <1>6, <1>7, <1>8, <1>9, <1>10, <1>11, <1>12, <1>13,
     <1>14, <1>15, <1>16, <1>17 DEF LogNext

\* Push posts once for each packet, and the thread waits once for each Pop.
LEMMA TokenStep == ASSUME LogInv, [LogNext]_logVars PROVE TokenInv'
<1> USE DEF LogInv, LogType, StartInv, IdlePCs, TokenInv, OwnInv, WriterInv, Busy
<1>1. CASE OpenLog
  BY <1>1 DEF OpenLog, InitPool, writerVars, fileVars, queueVars
<1>2. CASE SetLogLevel
  BY <1>2 DEF SetLogLevel, queueVars, threadVars, writerVars
<1>3. CASE UnInitLog
  BY <1>3 DEF UnInitLog, queueVars, threadVars, writerVars, fileVars
<1>4. CASE JoinLogger
  BY <1>4 DEF JoinLogger, queueVars, writerVars, fileVars
<1>5. CASE CloseFiles
  BY <1>5 DEF CloseFiles, queueVars, threadVars, writerVars
<1>6. ASSUME NEW w \in Writers, NEW c \in Cells, AllocCell(w, c) PROVE TokenInv'
  BY <1>6 DEF AllocCell, AllocWritePacket, ownerVars, threadVars, fileVars
<1>7. ASSUME NEW w \in Writers, FillCell(w) PROVE TokenInv'
  BY <1>7 DEF FillCell, ownerVars, threadVars, fileVars
<1>8. ASSUME NEW w \in Writers, PushCell(w) PROVE TokenInv'
  BY <1>8 DEF PushCell, Push, ownerVars, threadVars, fileVars
<1>9. CASE TestStop
  BY <1>9 DEF TestStop, queueVars, ownerVars, writerVars, fileVars
<1>10. CASE WaitCell
  <2>1. UNCHANGED m_queue /\ lpc = "wait"
    BY <1>10 DEF WaitCell, SemWait, queueVars
  <2>2. \/ m_sem > 0 /\ m_sem' = m_sem - 1 /\ lpc' = "lock"
        \/ m_sem' = m_sem /\ lpc' = "test"
    BY <1>10 DEF WaitCell, SemWait, queueVars
  <2>3. QED BY <2>1, <2>2
<1>11. CASE LockQueue
  BY <1>11 DEF LockQueue, EnterLock, ownerVars, writerVars, fileVars
<1>12. CASE PopCell
  BY <1>12 DEF PopCell, PopLocked, ownerVars, writerVars, fileVars
<1>13. CASE LockFiles
  BY <1>13 DEF LockFiles, queueVars, ownerVars, writerVars, fileVars
<1>14. CASE WriteLine
  BY <1>14 DEF WriteLine, AppendLine, Rotate, queueVars, ownerVars, writerVars, fileVars
<1>15. CASE LockToFree
  BY <1>15 DEF LockToFree, EnterLock, ownerVars, writerVars, fileVars
<1>16. CASE FreeCell
  BY <1>16 DEF FreeCell, Release, ownerVars, writerVars, fileVars
<1>17. CASE UNCHANGED logVars
  BY <1>17 DEF logVars, queueVars, ownerVars, threadVars, writerVars, fileVars
<1>18. QED
  BY <1>1, <1>2, <1>3, <1>4, <1>5, <1>6, <1>7, <1>8, <1>9, <1>10, <1>11, <1>12, <1>13,
     <1>14, <1>15, <1>16, <1>17 DEF LogNext

\* A packet goes from one place to the next.
LEMMA OwnStep == ASSUME CellsFit, LogInv, [LogNext]_logVars PROVE OwnInv'
<1> USE DEF LogInv, LogType, StartInv, IdlePCs, TokenInv, OwnInv,
            WriterInv, WritersApart, QueueApart, HandApart, Busy, HandPCs
<1>1. CASE OpenLog
  BY <1>1 DEF OpenLog, InitPool, writerVars, fileVars, queueVars
<1>2. CASE SetLogLevel
  BY <1>2 DEF SetLogLevel, queueVars, threadVars, writerVars
<1>3. CASE UnInitLog
  BY <1>3 DEF UnInitLog, queueVars, threadVars, writerVars, fileVars
<1>4. CASE JoinLogger
  BY <1>4 DEF JoinLogger, queueVars, writerVars, fileVars
<1>5. CASE CloseFiles
  BY <1>5 DEF CloseFiles, queueVars, threadVars, writerVars
<1>6. ASSUME NEW w \in Writers, NEW c \in Cells, AllocCell(w, c) PROVE OwnInv'
  <2>1. PICK b \in m_freeList : /\ m_freeList' = m_freeList \ {b}
                                /\ content' = [content EXCEPT ![b] = <<>>]
                                /\ abuf' = [abuf EXCEPT ![w] = b]
                                /\ acell' = [acell EXCEPT ![w] = c]
                                /\ apc' = [apc EXCEPT ![w] = "write"]
    BY <1>6 DEF AllocCell, AllocWritePacket
  <2>2. UNCHANGED <<m_queue, lpc, lbuf>> /\ ~Busy(w)
    BY <1>6 DEF AllocCell, AllocWritePacket, threadVars
  <2>3. abuf'[w] = b /\ acell'[w] = c /\ apc'[w] = "write" /\ content'[b] = <<>>
    BY <2>1
  <2>4. \A v \in Writers \ {w} : apc'[v] = apc[v] /\ abuf'[v] = abuf[v] /\ acell'[v] = acell[v]
    BY <2>1
  <2>5. \A x \in Buffers \ {b} : content'[x] = content[x]
    BY <2>1
  <2>6. \A v \in Writers : Busy(v) => abuf[v] # b
    BY <2>1
  <2>7. WriterInv'
    BY <2>1, <2>3, <2>4, <2>5, <2>6
  <2>8. WritersApart'
    BY <2>3, <2>4, <2>6
  <2>9. QueueApart'
    BY <2>1, <2>2, <2>3, <2>4
  <2>10. HandApart'
    BY <2>1, <2>2, <2>3, <2>4
  <2>11. QED BY <2>7, <2>8, <2>9, <2>10
<1>7. ASSUME NEW w \in Writers, FillCell(w) PROVE OwnInv'
  <2>1. /\ abuf[w] \in Buffers /\ apc[w] = "write" /\ Busy(w)
        /\ content' = [content EXCEPT ![abuf[w]] = Write(content[abuf[w]], acell[w])]
        /\ apc' = [apc EXCEPT ![w] = "push"]
        /\ UNCHANGED <<m_queue, m_freeList, abuf, acell, lpc, lbuf>>
    BY <1>7 DEF FillCell, threadVars
  <2>2. content'[abuf[w]] = <<acell[w]>> /\ apc'[w] = "push"
    <3>1. content[abuf[w]] = <<>> /\ acell[w] \in Cells
      BY <2>1
    <3>2. Write(content[abuf[w]], acell[w]) = <<acell[w]>>
      BY <3>1, CellIsWritten
    <3>3. content'[abuf[w]] = Write(content[abuf[w]], acell[w])
      BY <2>1
    <3>4. QED BY <2>1, <3>2, <3>3
  <2>3. \A x \in Buffers \ {abuf[w]} : content'[x] = content[x]
    BY <2>1
  <2>4. \A v \in Writers : v # w => apc'[v] = apc[v]
    BY <2>1
  <2>5. \A v \in Writers : Busy(v)' <=> Busy(v)
    BY <2>1, <2>2, <2>4
  <2>6. WriterInv'
    <3> SUFFICES ASSUME NEW v \in Writers, Busy(v)
                 PROVE  /\ abuf'[v] \in Buffers \ m_freeList' /\ acell'[v] \in Cells
                        /\ content'[abuf'[v]] = IF apc'[v] = "write" THEN <<>> ELSE <<acell'[v]>>
      BY <2>5
    <3>1. CASE v = w
      BY <2>1, <2>2, <3>1
    <3>2. CASE v # w
      <4>1. abuf[v] \in Buffers \ {abuf[w]}
        BY <2>1, <3>2
      <4>2. QED BY <2>1, <2>3, <2>4, <3>2, <4>1
    <3>3. QED BY <3>1, <3>2
  <2>7. WritersApart' /\ QueueApart' /\ HandApart'
    BY <2>1, <2>5
  <2>8. QED BY <2>6, <2>7
<1>8. ASSUME NEW w \in Writers, PushCell(w) PROVE OwnInv'
  <2>1. /\ abuf[w] \in Buffers /\ Busy(w) /\ m_queue' = Append(m_queue, abuf[w])
        /\ apc' = [apc EXCEPT ![w] = "idle"]
        /\ abuf' = [abuf EXCEPT ![w] = NoBuffer]
        /\ acell' = [acell EXCEPT ![w] = NoBuffer]
        /\ UNCHANGED <<m_freeList, content, lpc, lbuf>>
    BY <1>8 DEF PushCell, Push, threadVars
  <2> DEFINE n == Len(m_queue)
  <2>2. /\ DOMAIN m_queue = 1..n /\ DOMAIN m_queue' = 1..(n + 1) /\ n \in Nat
        /\ m_queue'[n + 1] = abuf[w] /\ \A i \in 1..n : m_queue'[i] = m_queue[i]
    BY <2>1
  <2> HIDE DEF n
  <2>3. ~Busy(w)'
    BY <2>1
  <2>4. \A v \in Writers \ {w} : apc'[v] = apc[v] /\ abuf'[v] = abuf[v] /\ acell'[v] = acell[v]
    BY <2>1
  <2>5. \A v \in Writers : Busy(v)' => Busy(v) /\ v # w
    BY <2>3, <2>4
  <2>6. WriterInv' /\ WritersApart'
    BY <2>1, <2>4, <2>5
  <2>7. \A i \in 1..n : m_queue[i] # abuf[w]
    BY <2>1, <2>2
  <2>8. QueueApart'
    <3> HIDE DEF LogType, TokenInv, StartInv, WriterInv, HandApart
    <3>0. \A i \in DOMAIN m_queue' : i \in 1..n \/ i = n + 1
      BY <2>2
    <3>1. \A i, j \in DOMAIN m_queue' : m_queue'[i] = m_queue'[j] => i = j
      <4> SUFFICES ASSUME NEW i \in DOMAIN m_queue', NEW j \in DOMAIN m_queue',
                          m_queue'[i] = m_queue'[j]
                   PROVE  i = j
        OBVIOUS
      <4>1. CASE i \in 1..n /\ j \in 1..n
        BY <2>2, <4>1
      <4>2. CASE i = n + 1 \/ j = n + 1
        BY <2>2, <2>7, <3>0, <4>2
      <4>3. QED BY <3>0, <4>1, <4>2
    <3>2. \A i \in DOMAIN m_queue' : m_queue'[i] \notin m_freeList'
      <4>1. abuf[w] \notin m_freeList
        BY <2>1 DEF WriterInv
      <4>2. QED BY <2>1, <2>2, <3>0, <4>1
    <3>3. \A i \in DOMAIN m_queue' : \A v \in Writers : Busy(v)' => abuf'[v] # m_queue'[i]
      BY <2>1, <2>2, <2>4, <2>5
    <3>4. QED BY <3>1, <3>2, <3>3
  <2>9. HandApart'
    BY <2>1, <2>2, <2>4, <2>5
  <2>10. QED BY <2>6, <2>8, <2>9
<1>9. CASE TestStop
  BY <1>9 DEF TestStop, queueVars, ownerVars, writerVars, fileVars
<1>10. CASE WaitCell
  BY <1>10 DEF WaitCell, SemWait, queueVars, ownerVars, writerVars, fileVars
<1>11. CASE LockQueue
  BY <1>11 DEF LockQueue, EnterLock, ownerVars, writerVars, fileVars
<1>12. CASE PopCell
  <2>1. /\ m_queue # <<>> /\ m_queue' = Tail(m_queue) /\ lbuf' = Head(m_queue)
        /\ lpc' = "guard" /\ UNCHANGED <<m_freeList, content, apc, abuf, acell>>
    BY <1>12 DEF PopCell, PopLocked, writerVars
  <2> DEFINE n == Len(m_queue) - 1
  <2>2. /\ DOMAIN m_queue = 1..(n + 1) /\ DOMAIN m_queue' = 1..n /\ n \in Nat
        /\ m_queue[1] = lbuf' /\ \A i \in 1..n : m_queue'[i] = m_queue[i + 1]
    BY <2>1
  <2> HIDE DEF n
  <2>3. lbuf' \in Buffers /\ 1 \in DOMAIN m_queue /\ \A i \in 1..n : i + 1 \in DOMAIN m_queue
    BY <2>2
  <2>4. WriterInv' /\ WritersApart'
    BY <2>1
  <2>5. QueueApart'
    <3>1. \A i, j \in DOMAIN m_queue' : m_queue'[i] = m_queue'[j] => i = j
      <4> SUFFICES ASSUME NEW i \in 1..n, NEW j \in 1..n, m_queue[i + 1] = m_queue[j + 1]
                   PROVE  i = j
        BY <2>2
      <4>1. i + 1 = j + 1
        BY <2>3
      <4>2. QED BY <2>2, <4>1
    <3>2. \A i \in DOMAIN m_queue' : m_queue'[i] \notin m_freeList'
      BY <2>1, <2>2, <2>3
    <3>3. \A i \in DOMAIN m_queue' : \A v \in Writers : Busy(v)' => abuf'[v] # m_queue'[i]
      BY <2>1, <2>2, <2>3
    <3>4. QED BY <3>1, <3>2, <3>3
  <2>6. HandApart'
    <3>1. lbuf' \notin m_freeList' /\ \A v \in Writers : Busy(v)' => abuf'[v] # lbuf'
      BY <2>1, <2>2, <2>3
    <3>2. \A i \in DOMAIN m_queue' : m_queue'[i] # lbuf'
      <4> SUFFICES ASSUME NEW i \in 1..n, m_queue[i + 1] = m_queue[1]
                   PROVE  FALSE
        BY <2>2
      <4>1. i + 1 = 1
        BY <2>3
      <4>2. QED BY <2>2, <4>1
    <3>3. QED BY <2>3, <3>1, <3>2
  <2>7. QED BY <2>4, <2>5, <2>6
<1>13. CASE LockFiles
  BY <1>13 DEF LockFiles, queueVars, ownerVars, writerVars, fileVars
<1>14. CASE WriteLine
  BY <1>14 DEF WriteLine, AppendLine, Rotate, queueVars, ownerVars, writerVars, fileVars
<1>15. CASE LockToFree
  BY <1>15 DEF LockToFree, EnterLock, ownerVars, writerVars, fileVars
<1>16. CASE FreeCell
  BY <1>16 DEF FreeCell, Release, ownerVars, writerVars, fileVars
<1>17. CASE UNCHANGED logVars
  BY <1>17 DEF logVars, queueVars, ownerVars, threadVars, writerVars, fileVars
<1>18. QED
  BY <1>1, <1>2, <1>3, <1>4, <1>5, <1>6, <1>7, <1>8, <1>9, <1>10, <1>11, <1>12, <1>13,
     <1>14, <1>15, <1>16, <1>17 DEF LogNext

\* The cells that wait are the last ones.
LEMMA QueueStep == ASSUME CellsFit, LogInv, [LogNext]_logVars PROVE QueueInv'
<1> USE DEF LogInv, LogType, Popped, QueueInv, StartInv, IdlePCs
<1>1. CASE OpenLog
  BY <1>1 DEF OpenLog, InitPool, writerVars, fileVars, queueVars
<1>2. CASE SetLogLevel
  BY <1>2 DEF SetLogLevel, queueVars, threadVars, writerVars
<1>3. CASE UnInitLog
  BY <1>3 DEF UnInitLog, queueVars, threadVars, writerVars, fileVars
<1>4. CASE JoinLogger
  BY <1>4 DEF JoinLogger, queueVars, writerVars, fileVars
<1>5. CASE CloseFiles
  BY <1>5 DEF CloseFiles, queueVars, threadVars, writerVars
<1>6. ASSUME NEW w \in Writers, NEW c \in Cells, AllocCell(w, c) PROVE QueueInv'
  <2>1. PICK b \in m_freeList : content' = [content EXCEPT ![b] = <<>>]
    BY <1>6 DEF AllocCell, AllocWritePacket
  <2>2. UNCHANGED <<m_queue, lpc, lbuf, logged>>
    BY <1>6 DEF AllocCell, AllocWritePacket, threadVars
  <2>3. \A i \in 1..Len(m_queue) : content'[m_queue[i]] = content[m_queue[i]]
    BY <2>1 DEF OwnInv, QueueApart
  <2>4. lpc \in {"guard", "append"} => content'[lbuf] = content[lbuf]
    BY <2>1 DEF OwnInv, HandApart, HandPCs
  <2>5. QED BY <2>2, <2>3, <2>4
<1>7. ASSUME NEW w \in Writers, FillCell(w) PROVE QueueInv'
  <2>1. /\ Busy(w) /\ UNCHANGED <<m_queue, lpc, lbuf, logged>>
        /\ \A x \in Buffers : x # abuf[w] => content'[x] = content[x]
    BY <1>7 DEF FillCell, threadVars, Busy
  <2>2. \A i \in 1..Len(m_queue) : content'[m_queue[i]] = content[m_queue[i]]
    BY <2>1 DEF OwnInv, QueueApart
  <2>3. lpc \in {"guard", "append"} => content'[lbuf] = content[lbuf]
    BY <2>1 DEF OwnInv, HandApart, HandPCs
  <2>4. QED BY <2>1, <2>2, <2>3
<1>8. ASSUME NEW w \in Writers, PushCell(w) PROVE QueueInv'
  <2>1. /\ abuf[w] \in Buffers /\ m_queue' = Append(m_queue, abuf[w])
        /\ acell[w] \in Cells /\ logged' = Append(logged, acell[w])
        /\ content[abuf[w]] = <<acell[w]>>
        /\ UNCHANGED <<content, lpc, lbuf>>
    BY <1>8 DEF PushCell, Push, threadVars, OwnInv, WriterInv, Busy
  <2> DEFINE n == Len(m_queue)
             l == Len(logged)
  <2>2. /\ n \in Nat /\ Len(m_queue') = n + 1 /\ m_queue'[n + 1] = abuf[w]
        /\ \A i \in 1..n : m_queue'[i] = m_queue[i]
    BY <2>1
  <2>3. /\ l \in Nat /\ Len(logged') = l + 1 /\ logged'[l + 1] = acell[w]
        /\ \A i \in 1..l : logged'[i] = logged[i]
    BY <2>1
  <2> HIDE DEF n, l
  <2>4. Popped' = Popped /\ Popped = l - n /\ Popped \in Nat
    BY <2>2, <2>3 DEF n, l
  <2> HIDE DEF Popped, LogType
  <2>5. \A i \in 1..(n + 1) : content'[m_queue'[i]] = <<logged'[Popped' + i]>>
    <3> SUFFICES ASSUME NEW i \in 1..(n + 1)
                 PROVE  content[m_queue'[i]] = <<logged'[Popped + i]>>
      BY <2>1, <2>4
    <3>1. CASE i = n + 1
      <4>1. Popped + i = l + 1
        BY <2>2, <2>3, <2>4, <3>1
      <4>2. QED BY <2>1, <2>2, <2>3, <3>1, <4>1
    <3>2. CASE i \in 1..n
      <4>1. Popped + i \in 1..l
        BY <2>2, <2>3, <2>4, <3>2
      <4>2. content[m_queue[i]] = <<logged[Popped + i]>>
        BY <3>2 DEF n
      <4>3. QED BY <2>2, <2>3, <3>2, <4>1, <4>2
    <3>3. QED BY <2>2, <3>1, <3>2
  <2>6. lpc \in {"guard", "append"} => logged'[Popped] = logged[Popped]
    BY <2>2, <2>3, <2>4
  <2>7. QED BY <2>1, <2>2, <2>4, <2>5, <2>6
<1>9. CASE TestStop
  BY <1>9 DEF TestStop, queueVars, ownerVars, writerVars, fileVars
<1>10. CASE WaitCell
  BY <1>10 DEF WaitCell, SemWait, queueVars, ownerVars, writerVars, fileVars
<1>11. CASE LockQueue
  BY <1>11 DEF LockQueue, EnterLock, ownerVars, writerVars, fileVars
<1>12. CASE PopCell
  <2>1. /\ m_queue # <<>> /\ m_queue' = Tail(m_queue) /\ lbuf' = m_queue[1]
        /\ lpc' = "guard" /\ UNCHANGED <<content, logged>>
    BY <1>12 DEF PopCell, PopLocked, writerVars, TokenInv
  <2> DEFINE n == Len(m_queue) - 1
  <2>2. /\ Len(m_queue) = n + 1 /\ Len(m_queue') = n /\ n \in Nat
        /\ \A i \in 1..n : m_queue'[i] = m_queue[i + 1]
    BY <2>1
  <2> HIDE DEF n
  <2>3. Popped' = Popped + 1 /\ Popped \in Nat
    <3>1. Len(logged) \in Nat /\ Popped = Len(logged) - (n + 1)
      BY <2>2
    <3>2. Popped' = Len(logged) - n
      BY <2>1, <2>2
    <3>3. QED BY <2>2, <3>1, <3>2
  <2> HIDE DEF Popped, LogType
  <2>4. content[m_queue[1]] = <<logged[Popped + 1]>>
    BY <2>2
  <2>5. \A i \in 1..n : content[m_queue[i + 1]] = <<logged[Popped + 1 + i]>>
    <3> TAKE i \in 1..n
    <3>1. i + 1 \in 1..(n + 1) /\ Popped + (i + 1) = Popped + 1 + i
      BY <2>2, <2>3
    <3>2. QED BY <2>2, <3>1
  <2>6. QED BY <2>1, <2>2, <2>3, <2>4, <2>5
<1>13. CASE LockFiles
  BY <1>13 DEF LockFiles, queueVars, ownerVars, writerVars, fileVars
<1>14. CASE WriteLine
  BY <1>14 DEF WriteLine, AppendLine, Rotate, queueVars, ownerVars, writerVars, fileVars
<1>15. CASE LockToFree
  BY <1>15 DEF LockToFree, EnterLock, ownerVars, writerVars, fileVars
<1>16. CASE FreeCell
  BY <1>16 DEF FreeCell, Release, ownerVars, writerVars, fileVars
<1>17. CASE UNCHANGED logVars
  BY <1>17 DEF logVars, queueVars, ownerVars, threadVars, writerVars, fileVars
<1>18. QED
  BY <1>1, <1>2, <1>3, <1>4, <1>5, <1>6, <1>7, <1>8, <1>9, <1>10, <1>11, <1>12, <1>13,
     <1>14, <1>15, <1>16, <1>17 DEF LogNext

\* Only WriteLine writes, and it writes what the next cell asks for.
LEMMA OrderStep == ASSUME CellsFit, LogInv, [LogNext]_logVars PROVE OrderInv'
<1> USE DEF LogInv, LogType, Popped, OrderInv, Done, StartInv, IdlePCs
<1>1. CASE OpenLog
  BY <1>1 DEF OpenLog, InitPool, writerVars, fileVars, queueVars
<1>2. CASE SetLogLevel
  <2>1. archives' \o file' = <<>> /\ Popped' = 0 /\ lpc' \notin {"guard", "append"}
    BY <1>2 DEF SetLogLevel, queueVars, threadVars, writerVars
  <2>2. Done' = 0
    BY <2>1
  <2>3. Selected(<<>>, logged', 0)
    BY SelectedNone
  <2>4. QED BY <2>1, <2>2, <2>3
<1>3. CASE UnInitLog
  BY <1>3 DEF UnInitLog, queueVars, threadVars, writerVars, fileVars
<1>4. CASE JoinLogger
  BY <1>4 DEF JoinLogger, queueVars, writerVars, fileVars
<1>5. CASE CloseFiles
  BY <1>5 DEF CloseFiles, queueVars, threadVars, writerVars
<1>6. ASSUME NEW w \in Writers, NEW c \in Cells, AllocCell(w, c) PROVE OrderInv'
  BY <1>6 DEF AllocCell, AllocWritePacket, ownerVars, threadVars, fileVars
<1>7. ASSUME NEW w \in Writers, FillCell(w) PROVE OrderInv'
  BY <1>7 DEF FillCell, ownerVars, threadVars, fileVars
<1>8. ASSUME NEW w \in Writers, PushCell(w) PROVE OrderInv'
  <2>1. /\ abuf[w] \in Buffers /\ m_queue' = Append(m_queue, abuf[w])
        /\ acell[w] \in Cells /\ logged' = Append(logged, acell[w])
        /\ UNCHANGED <<lpc, fileVars>>
    BY <1>8 DEF PushCell, Push, threadVars, OwnInv, WriterInv, Busy
  <2>2. Popped' = Popped /\ Popped \in 0..Len(logged)
    BY <2>1 DEF QueueInv
  <2>3. Done' = Done /\ Done \in 0..Len(logged)
    BY <2>1, <2>2 DEF QueueInv
  <2>4. \A k \in 1..Done : logged'[k] = logged[k]
    BY <2>1, <2>3
  <2> HIDE DEF Done, Popped
  <2> DEFINE all == archives \o file
  <2>5. all' = all
    BY <2>1 DEF fileVars
  <2> HIDE DEF all
  <2>6. Selected(all, logged, Done) => Selected(all, logged', Done)
    <3>1. Done \in Nat
      BY <2>3
    <3>2. QED BY <2>4, <3>1, SelectedDepends
  <2>7. QED BY <2>1, <2>3, <2>5, <2>6 DEF fileVars, all
<1>9. CASE TestStop
  BY <1>9 DEF TestStop, queueVars, ownerVars, writerVars, fileVars
<1>10. CASE WaitCell
  BY <1>10 DEF WaitCell, SemWait, queueVars, ownerVars, writerVars, fileVars
<1>11. CASE LockQueue
  BY <1>11 DEF LockQueue, EnterLock, ownerVars, writerVars, fileVars
<1>12. CASE PopCell
  <2>1. /\ m_queue # <<>> /\ m_queue' = Tail(m_queue) /\ lpc = "pop" /\ lpc' = "guard"
        /\ UNCHANGED <<logged, fileVars>>
    BY <1>12 DEF PopCell, PopLocked, writerVars, TokenInv
  <2>2. Len(m_queue') = Len(m_queue) - 1 /\ Len(m_queue) \in Nat /\ Len(logged) \in Nat
    BY <2>1
  <2>3. Done' = Done
    BY <2>1, <2>2
  <2>4. QED BY <2>1, <2>3 DEF fileVars
<1>13. CASE LockFiles
  BY <1>13 DEF LockFiles, queueVars, ownerVars, writerVars, fileVars
<1>14. CASE WriteLine
  <2> DEFINE c == content[lbuf][1]
             all == archives \o file
  <2>1. /\ lpc = "append" /\ lpc' = "relock" /\ UNCHANGED <<m_queue, content, logged>>
    BY <1>14 DEF WriteLine, queueVars, writerVars
  <2>2. Popped \in Nat \ {0} /\ c = logged[Popped] /\ c \in Cells
    BY <2>1 DEF QueueInv
  <2>3. Done \in Nat /\ Popped = Done + 1 /\ Done' = Done + 1
    BY <2>1, <2>2
  <2>4. all \in Seq(Cells)
    OBVIOUS
  <2>5. c = logged[Done + 1]
    BY <2>2, <2>3
  <2> HIDE DEF c, Popped, Done
  <2>6. ASSUME UNCHANGED fileVars, fileHandle = "none" \/ ~Passes(c) PROVE OrderInv'
    <3>1. Selected(all, logged, Done) /\ ~Passes(c) => Selected(all, logged, Done + 1)
      BY <2>3, <2>4, <2>5, SelectedSkips
    <3>2. QED BY <2>1, <2>3, <2>6, <3>1 DEF fileVars
  <2>7. Selected(all, logged, Done) /\ Passes(c) => Selected(Append(all, c), logged, Done + 1)
    BY <2>3, <2>4, <2>5, SelectedTakes
  <2>8. ASSUME AppendLine(c), Passes(c) PROVE OrderInv'
    <3>1. archives \o Append(file, c) = Append(all, c)
      BY <2>2
    <3>2. QED BY <2>1, <2>3, <2>7, <2>8, <3>1 DEF AppendLine
  <2>9. ASSUME Rotate(c), fileHandle = "open", Passes(c) PROVE OrderInv'
    <3>1. (archives \o file) \o <<c>> = Append(all, c)
      BY <2>2
    <3>2. CASE archives' = archives \o file /\ file' = <<c>> /\ UNCHANGED <<fileHandle, diskFailed>>
      BY <2>1, <2>3, <2>7, <2>9, <3>1, <3>2
    <3>3. CASE diskFailed'
      BY <3>3
    <3>4. QED BY <2>9, <3>2, <3>3 DEF Rotate
  <2>10. QED BY <1>14, <2>6, <2>8, <2>9 DEF WriteLine, c
<1>15. CASE LockToFree
  BY <1>15 DEF LockToFree, EnterLock, ownerVars, writerVars, fileVars
<1>16. CASE FreeCell
  BY <1>16 DEF FreeCell, Release, ownerVars, writerVars, fileVars
<1>17. CASE UNCHANGED logVars
  BY <1>17 DEF logVars, queueVars, ownerVars, threadVars, writerVars, fileVars
<1>18. QED
  BY <1>1, <1>2, <1>3, <1>4, <1>5, <1>6, <1>7, <1>8, <1>9, <1>10, <1>11, <1>12, <1>13,
     <1>14, <1>15, <1>16, <1>17 DEF LogNext

-----------------------------------------------------------------------------
(* The theorem. *)

\* The packet in the thread's hand comes before the queue.
LEMMA HandFirst ==
    ASSUME m_queue \in Seq(Buffers), lbuf \in Buffers
    PROVE  LET w == <<lbuf>> \o m_queue
           IN  /\ w \in Seq(Buffers) /\ Len(w) = Len(m_queue) + 1 /\ w[1] = lbuf
               /\ \A i \in 1..Len(m_queue) : w[i + 1] = m_queue[i]
<1> DEFINE s == <<lbuf>>
<1>1. s \in Seq(Buffers) /\ Len(s) = 1 /\ s[1] = lbuf
  OBVIOUS
<1> HIDE DEF s
<1>2. /\ s \o m_queue \in Seq(Buffers) /\ Len(s \o m_queue) = Len(s) + Len(m_queue)
      /\ \A i \in 1..(Len(s) + Len(m_queue)) :
            (s \o m_queue)[i] = IF i <= Len(s) THEN s[i] ELSE m_queue[i - Len(s)]
  BY <1>1, ConcatProperties
<1>3. Len(m_queue) \in Nat
  OBVIOUS
<1>4. (s \o m_queue)[1] = lbuf
  BY <1>1, <1>2, <1>3
<1>5. \A i \in 1..Len(m_queue) : (s \o m_queue)[i + 1] = m_queue[i]
  <2> TAKE i \in 1..Len(m_queue)
  <2>1. i + 1 \in 1..(Len(s) + Len(m_queue)) /\ ~(i + 1 <= Len(s)) /\ (i + 1) - Len(s) = i
    BY <1>1, <1>3
  <2>2. QED BY <1>2, <2>1
<1>6. Len(s \o m_queue) = Len(m_queue) + 1
  BY <1>1, <1>2, <1>3
<1>7. QED BY <1>2, <1>4, <1>5, <1>6 DEF s

\* What the invariant says of popped cells is what the property says of Waiting.
LEMMA LogInvOrders == LogInv => LinesInOrder
<1> SUFFICES ASSUME LogInv, ~diskFailed, lpc # "killed", fileHandle = "open"
             PROVE  /\ Selected(archives \o file, logged, Handled)
                    /\ \A i \in DOMAIN Waiting : content[Waiting[i]] = <<logged[Handled + i]>>
  BY DEF LinesInOrder
<1>1. Selected(archives \o file, logged, Done)
  BY DEF LogInv, OrderInv
<1>2. Popped \in Nat /\ Len(m_queue) \in Nat /\ Len(logged) \in Nat
  BY DEF LogInv, LogType, QueueInv
<1>3. CASE lpc \in {"guard", "append"}
  <2>1. /\ Waiting = <<lbuf>> \o m_queue
        /\ Len(Waiting) = Len(m_queue) + 1 /\ Waiting[1] = lbuf /\ Waiting \in Seq(Buffers)
        /\ \A i \in 1..Len(m_queue) : Waiting[i + 1] = m_queue[i]
    BY <1>3, HandFirst DEF Waiting, LogInv, LogType, OwnInv, HandApart, HandPCs
  <2>2. Handled = Popped - 1 /\ Done = Handled
    BY <1>2, <1>3, <2>1 DEF Handled, Popped, Done
  <2>3. /\ content[lbuf] = <<logged[Popped]>>
        /\ \A i \in 1..Len(m_queue) : content[m_queue[i]] = <<logged[Popped + i]>>
    BY <1>3 DEF LogInv, QueueInv
  <2>4. ASSUME NEW i \in DOMAIN Waiting
        PROVE  content[Waiting[i]] = <<logged[Handled + i]>>
    <3>1. CASE i = 1
      BY <1>2, <2>1, <2>2, <2>3, <3>1
    <3>2. CASE i # 1
      <4>1. i - 1 \in 1..Len(m_queue) /\ i = (i - 1) + 1
        BY <1>2, <2>1, <3>2
      <4>2. Waiting[i] = m_queue[i - 1]
        BY <2>1, <4>1
      <4>3. Popped + (i - 1) = Handled + i
        BY <1>2, <2>2, <4>1
      <4>4. QED BY <2>3, <4>1, <4>2, <4>3
    <3>3. QED BY <3>1, <3>2
  <2>5. QED BY <1>1, <2>2, <2>4
<1>4. CASE lpc \notin {"guard", "append"}
  <2>1. Waiting = m_queue
    <3>1. m_queue \in Seq(Buffers)
      BY DEF LogInv, LogType
    <3>2. <<>> \o m_queue = m_queue
      BY <3>1, ConcatEmptySeq
    <3>3. QED BY <1>4, <3>2 DEF Waiting
  <2>2. Handled = Popped /\ Done = Popped
    BY <1>4, <2>1 DEF Handled, Popped, Done
  <2>3. \A i \in 1..Len(m_queue) : content[m_queue[i]] = <<logged[Popped + i]>>
    BY DEF LogInv, QueueInv
  <2>4. DOMAIN m_queue = 1..Len(m_queue)
    BY DEF LogInv, LogType
  <2>5. QED BY <1>1, <2>1, <2>2, <2>3, <2>4
<1>5. QED BY <1>3, <1>4

\* The logger's lines are in order for any writers, cells and number of packets, and
\* with any faults of the disk, the queue and the thread: a line is lost or moved only
\* if a rename or a reopen failed or Join terminated the thread (LogManager.cpp
\* 126-129, 209-347).  A cell fits a packet, as Init makes them (LogManager.cpp 109).
THEOREM LinesAlwaysInOrder == ASSUME CellsFit PROVE LogSpec => []LinesInOrder
<1>1. LogInv /\ [LogNext]_logVars => LogInv'
  BY TypeStep, StartStep, OwnStep, TokenStep, QueueStep, OrderStep DEF LogInv
<1>2. QED BY <1>1, LogInvInit, LogInvOrders, PTL DEF LogSpec
=============================================================================
