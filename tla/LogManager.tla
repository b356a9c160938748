----------------------------- MODULE LogManager -----------------------------
(***************************************************************************)
(* The logger (Baselib/LogManager.cpp): any thread writes a line into a    *)
(* packet of the queue, one thread of the logger pops the packets, filters *)
(* them by level and appends them to the file, which it renames and        *)
(* reopens when it has grown too large.                                    *)
(*                                                                         *)
(* A cell is a record: known says whether its name is in                   *)
(* m_mapNameToFileObject, level is its logLevel.  One file is modelled: the *)
(* files of the map share nothing but m_threadLock, which the log thread   *)
(* alone takes before UnInit.  A disk that fails leaves a FILE that is NULL *)
(* or closed; what is called on it afterwards is undefined, and the        *)
(* property claims nothing from there on.                                  *)
(***************************************************************************)
EXTENDS PackageQueue

CONSTANTS
    Cells,     \* what the threads log, elements of Pieces
    Writers,   \* the threads that log
    Logger,    \* m_ThreadForWrite
    FileLevel, \* nLogLevel of the file
    RotateAt,  \* the lines that make the file larger than 10 MB
    Late,      \* may Join(100) run out before the thread has left?
    Faults     \* may the disk, the queue or the thread fail?

VARIABLES
    m_Stop,
    mpc,          \* the owner: "init", "open", "run", "join", "close", "done"
    lpc,          \* the log thread
    lbuf,         \* m_buf of its PacketRead
    m_threadLock,
    apc,          \* a writer: "idle", "write" or "push"
    abuf,         \* its packet
    acell,        \* its cell
    logged,       \* the cells Push took, in order
    fileHandle,   \* "none": not in the map, "open", "null", "closed"
    file,         \* the lines in the file
    archives,     \* the lines of the files renamed so far
    diskFailed    \* a rename or a reopen failed

ownerVars == <<m_Stop, mpc>>
threadVars == <<lpc, lbuf, m_threadLock>>
writerVars == <<apc, abuf, acell, logged>>
fileVars == <<fileHandle, file, archives, diskFailed>>
logVars == <<queueVars, ownerVars, threadVars, writerVars, fileVars>>

LogInit ==
    /\ InitQueue
    /\ m_Stop = FALSE /\ mpc = "init"
    /\ lpc = "none" /\ lbuf = NoBuffer /\ m_threadLock = Nobody
    /\ apc = [w \in Writers |-> "idle"]
    /\ abuf = [w \in Writers |-> NoBuffer]
    /\ acell = [w \in Writers |-> NoBuffer]
    /\ logged = <<>>
    /\ fileHandle = "none" /\ file = <<>> /\ archives = <<>> /\ diskFailed = FALSE

-----------------------------------------------------------------------------
(* The owner: Init, SetLogLevel and, much later, UnInit. *)

\* Init is true once the directory exists: a queue or a thread that cannot be
\* had ends the loop before ret is touched again.  Without a directory Init ends
\* with UnInit, which has nothing to close yet.
OpenLog ==
    /\ mpc = "init"
    /\ \/ InitPool /\ lpc' = "test" /\ UNCHANGED m_Stop
       \/ Faults /\ InitPool /\ UNCHANGED <<lpc, m_Stop>>
       \/ Faults /\ m_Stop' \in BOOLEAN /\ UNCHANGED <<queueVars, lpc>>
    /\ mpc' = "open"
    /\ UNCHANGED <<lbuf, m_threadLock, writerVars, fileVars>>

\* SetLogLevel puts the file in the map if it can be opened.
SetLogLevel ==
    /\ mpc = "open"
    /\ fileHandle' \in {"open"} \union (IF Faults THEN {"none"} ELSE {})
    /\ mpc' = "run"
    /\ UNCHANGED <<queueVars, m_Stop, threadVars, writerVars, file, archives, diskFailed>>

\* UnInit does its work once.
UnInitLog ==
    /\ mpc = "run"
    /\ m_Stop' = TRUE
    /\ mpc' = IF m_Stop THEN "done" ELSE "join"
    /\ UNCHANGED <<queueVars, threadVars, writerVars, fileVars>>

\* Join(100): the thread has left, or it is terminated where it stands, and keeps
\* the locks it holds.
JoinLogger ==
    /\ mpc = "join"
    /\ \/ lpc \in {"none", "exit"} /\ UNCHANGED lpc
       \/ Late /\ lpc \notin {"none", "exit"} /\ lpc' = "killed"
    /\ mpc' = "close"
    /\ UNCHANGED <<queueVars, m_Stop, lbuf, m_threadLock, writerVars, fileVars>>

CloseFiles ==
    /\ mpc = "close" /\ m_threadLock = Nobody
    /\ fileHandle' = "none"
    /\ mpc' = "done"
    /\ UNCHANGED <<queueVars, m_Stop, threadVars, writerVars, file, archives, diskFailed>>

-----------------------------------------------------------------------------
(* WriteV, on any thread. *)

AllocCell(w, c) ==
    /\ mpc # "init" /\ mpc # "open" /\ apc[w] = "idle"
    /\ c \notin Range(logged) /\ \A v \in Writers : acell[v] # c
    /\ \E b \in m_freeList :
          /\ AllocWritePacket(b)
          /\ abuf' = [abuf EXCEPT ![w] = b]
          /\ acell' = [acell EXCEPT ![w] = c]
          /\ apc' = [apc EXCEPT ![w] = "write"]
    /\ UNCHANGED <<ownerVars, threadVars, fileVars, logged>>

FillCell(w) ==
    /\ apc[w] = "write"
    /\ content' = [content EXCEPT ![abuf[w]] = Write(@, acell[w])]
    /\ apc' = [apc EXCEPT ![w] = "push"]
    /\ UNCHANGED <<m_pool, m_freeList, m_freeCount, m_queue, m_sem, m_poolLock,
                   ownerVars, threadVars, fileVars, abuf, acell, logged>>

PushCell(w) ==
    /\ apc[w] = "push"
    /\ Push(abuf[w])
    /\ logged' = Append(logged, acell[w])
    /\ apc' = [apc EXCEPT ![w] = "idle"]
    /\ abuf' = [abuf EXCEPT ![w] = NoBuffer]
    /\ acell' = [acell EXCEPT ![w] = NoBuffer]
    /\ UNCHANGED <<ownerVars, threadVars, fileVars>>

-----------------------------------------------------------------------------
(* ThreadProc and _write. *)

TestStop ==
    /\ lpc = "test"
    /\ lpc' = IF m_Stop THEN "exit" ELSE "wait"
    /\ UNCHANGED <<queueVars, ownerVars, lbuf, m_threadLock, writerVars, fileVars>>

\* Pop(rd, 50).
WaitCell ==
    /\ lpc = "wait"
    /\ \/ SemWait /\ lpc' = "lock"
       \/ m_sem = 0 /\ lpc' = "test" /\ UNCHANGED queueVars
    /\ UNCHANGED <<ownerVars, lbuf, m_threadLock, writerVars, fileVars>>

LockQueue ==
    /\ lpc = "lock"
    /\ EnterLock(Logger)
    /\ lpc' = "pop"
    /\ UNCHANGED <<ownerVars, lbuf, m_threadLock, writerVars, fileVars>>

PopCell ==
    /\ lpc = "pop"
    /\ PopLocked(Logger)
    /\ lbuf' = Head(m_queue)
    /\ lpc' = "guard"
    /\ UNCHANGED <<ownerVars, m_threadLock, writerVars, fileVars>>

LockFiles ==
    /\ lpc = "guard" /\ m_threadLock = Nobody
    /\ m_threadLock' = Logger
    /\ lpc' = "append"
    /\ UNCHANGED <<queueVars, ownerVars, lbuf, writerVars, fileVars>>

\* What the level of the file lets through.
Passes(c) == c.known /\ c.level <= FileLevel

\* fwrite to the file there is; a FILE that is NULL drops the line.
AppendLine(c) ==
    /\ file' = IF fileHandle = "open" THEN Append(file, c) ELSE file
    /\ UNCHANGED <<fileHandle, archives, diskFailed>>

RotateLosesLine(c) ==
    /\ archives' = archives \o file
    /\ file' = <<>>
    /\ UNCHANGED <<fileHandle, diskFailed>>
\* fclose, rename, _fsopen "wb": all of it works, or the new file cannot be
\* opened, or the rename fails and the closed FILE stays in the map.
Rotate(c) ==
    \/ /\ archives' = archives \o file
       /\ file' = <<c>>
       /\ UNCHANGED <<fileHandle, diskFailed>>
    \/ /\ Faults
       /\ archives' = archives \o file
       /\ file' = <<>> /\ fileHandle' = "null" /\ diskFailed' = TRUE
    \/ /\ Faults
       /\ fileHandle' = "closed" /\ diskFailed' = TRUE
       /\ UNCHANGED <<file, archives>>

\* The size is looked at when ten seconds have passed since the last rename, which
\* any line may find.
WriteLine ==
    /\ lpc = "append"
    /\ LET c == content[lbuf][1] IN
          IF fileHandle = "none" \/ ~Passes(c)
          THEN UNCHANGED fileVars
          ELSE \/ AppendLine(c)
               \/ fileHandle = "open" /\ Len(file) >= RotateAt /\ Rotate(c)
    /\ m_threadLock' = Nobody
    /\ lpc' = "relock"
    /\ UNCHANGED <<queueVars, ownerVars, lbuf, writerVars>>

\* ~PacketRead.
LockToFree ==
    /\ lpc = "relock"
    /\ EnterLock(Logger)
    /\ lpc' = "free"
    /\ UNCHANGED <<ownerVars, lbuf, m_threadLock, writerVars, fileVars>>

FreeCell ==
    /\ lpc = "free"
    /\ Release(Logger, lbuf)
    /\ lbuf' = NoBuffer
    /\ lpc' = "test"
    /\ UNCHANGED <<ownerVars, m_threadLock, writerVars, fileVars>>

LogNext ==
    \/ OpenLog \/ SetLogLevel \/ UnInitLog \/ JoinLogger \/ CloseFiles
    \/ \E w \in Writers : (\E c \in Cells : AllocCell(w, c)) \/ FillCell(w) \/ PushCell(w)
    \/ TestStop \/ WaitCell \/ LockQueue \/ PopCell \/ LockFiles \/ WriteLine
    \/ LockToFree \/ FreeCell

LogSpec == LogInit /\ [][LogNext]_logVars

-----------------------------------------------------------------------------
\* The packets the thread has still to write: the one in its hand, then the queue.
Waiting == (IF lpc \in {"guard", "append"} THEN <<lbuf>> ELSE <<>>) \o m_queue
Handled == Len(logged) - Len(Waiting)

\* lines are those of the first n cells that pass the level, in the cells' order: f says
\* which cell a line is.
Selected(lines, cells, n) ==
    \E f \in [DOMAIN lines -> 1..n] :
        /\ \A i, j \in DOMAIN lines : i < j => f[i] < f[j]
        /\ \A i \in DOMAIN lines : lines[i] = cells[f[i]] /\ Passes(lines[i])
        /\ \A k \in 1..n : Passes(cells[k]) => \E i \in DOMAIN lines : f[i] = k

\* No line that passes the level is lost, repeated or moved by the queue, by a
\* rename in the middle of the stream or by the shutdown: the renamed files and the
\* file are what passes of the cells the thread is done with, in the order they were
\* queued, and each later cell is in its packet, in the thread's hand or in the queue.
\* Two things void it, a disk that failed under the rename and the termination of the
\* thread by Join (LogManager.cpp 126-129, 209-347).
LinesInOrder ==
    (~diskFailed /\ lpc # "killed" /\ fileHandle = "open") =>
        /\ Selected(archives \o file, logged, Handled)
        /\ \A i \in DOMAIN Waiting : content[Waiting[i]] = <<logged[Handled + i]>>
=============================================================================
