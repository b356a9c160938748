---------------------------- MODULE SuperSocket ----------------------------
(***************************************************************************)
(* The blocking-style socket of the library (Netlib/SuperSocket.cpp):      *)
(* Connect, RecvAll and SendAll bound their waits by a time-out, which they *)
(* measure with the 32-bit tick count.  The clock here counts modulo Wrap   *)
(* and starts anywhere; elapsed is the true time since the call began.      *)
(*                                                                         *)
(* The peer takes and gives as many bytes at a time as it likes; which      *)
(* bytes they are no property tells apart, so RecvAll and SendAll differ    *)
(* only in how the loop ends when the peer has closed.                     *)
(***************************************************************************)
EXTENDS Integers

CONSTANTS
    Wrap,      \* the tick count's modulus, 2^32 in the program
    Timeouts,  \* the time-outs callers pass
    Length     \* the bytes a call is asked for

ASSUME SocketAssumption ==
    /\ Wrap \in Nat \ {0} /\ Length \in Nat \ {0}
    /\ Timeouts \subseteq Int /\ \A t \in Timeouts : t < Wrap

VARIABLES
    tick,      \* GetTickCount()
    fd,        \* "none", "open" or "connected"
    blocking,  \* m_blocking
    call,      \* "none", "connect", "recv" or "send"
    place,     \* in the call: "top" of the loop, "wait" in select, "io"
    timeoutMs, start, total,  \* of the call
    left,      \* what select still waits; Forever when timeoutMs < 0
    elapsed,   \* the true time since the call began
    answer     \* what the last call returned

sockVars == <<tick, fd, blocking, call, place, timeoutMs, start, total, left, elapsed, answer>>
argVars == <<call, timeoutMs, start>>
Forever == -1

SocketInit ==
    /\ tick \in 0 .. Wrap - 1
    /\ fd = "none" /\ blocking = TRUE
    /\ call = "none" /\ place = "top"
    /\ timeoutMs = 0 /\ start = 0 /\ total = 0 /\ left = 0 /\ elapsed = 0
    /\ answer = "none"

\* A tick count that wrapped is smaller than the one before.
TickDiffShort(now, old) == IF now >= old THEN now - old ELSE Wrap - 1 - old + now
TickDiff(now, old) == IF now >= old THEN now - old ELSE Wrap - 1 - old + now + 1

Return(a) == call' = "none" /\ answer' = a /\ UNCHANGED <<timeoutMs, start>>

-----------------------------------------------------------------------------
\* WaitEvent: select with the time-out, or without one when it is negative.
WaitEvent(t) == place' = "wait" /\ left' = IF t < 0 THEN Forever ELSE t

\* Connect closes what there was, makes the new socket non-blocking and waits for it
\* to be writable.  There may be no socket, the name may not resolve and the connect
\* may fail at once; the socket is not closed then.
Connect(t) ==
    /\ call = "none"
    /\ elapsed' = 0 /\ total' = 0
    /\ \/ /\ fd' \in {"none", "open"} /\ blocking' \in {blocking, FALSE}
          /\ Return("false")
          /\ UNCHANGED <<place, left>>
       \/ /\ fd' = "open" /\ blocking' = FALSE
          /\ call' = "connect" /\ timeoutMs' = t /\ start' = tick
          /\ WaitEvent(t)
          /\ UNCHANGED answer
    /\ UNCHANGED tick

\* RecvAll and SendAll take their start time first.
Transfer(c, t) ==
    /\ call = "none" /\ fd = "connected"
    /\ call' = c /\ timeoutMs' = t /\ start' = tick
    /\ place' = "top" /\ total' = 0 /\ elapsed' = 0
    /\ UNCHANGED <<tick, fd, blocking, left, answer>>

\* The top of the loop: done, out of time, or wait for what is left of the time.
LoopTop ==
    /\ call \in {"recv", "send"} /\ place = "top"
    /\ LET used == TickDiff(tick, start) IN
          IF total >= Length
          THEN Return("all") /\ UNCHANGED <<place, left>>
          ELSE IF used >= timeoutMs
          THEN Return("-1") /\ UNCHANGED <<place, left>>
          ELSE WaitEvent(timeoutMs - used) /\ UNCHANGED <<argVars, answer>>
    /\ UNCHANGED <<tick, fd, blocking, total, elapsed>>

\* The socket is ready before the time is up.
Ready ==
    /\ call # "none" /\ place = "wait"
    /\ place' = "io"
    /\ UNCHANGED <<tick, fd, blocking, argVars, total, left, elapsed, answer>>

WaitExpires ==
    /\ call # "none" /\ place = "wait" /\ left = 0
    /\ Return(IF call = "connect" THEN "false" ELSE "-1")
    /\ UNCHANGED <<tick, fd, blocking, place, total, left, elapsed>>

\* SO_ERROR says whether the connection stands.
Connected ==
    /\ call = "connect" /\ place = "io"
    /\ \/ fd' = "connected" /\ Return("true")
       \/ Return("false") /\ UNCHANGED fd
    /\ UNCHANGED <<tick, blocking, place, total, left, elapsed>>

\* recv or send moves some of the bytes; recv returns 0 when the peer has closed, and
\* what had been received until then is not given to the caller.
MoveBytes ==
    /\ call \in {"recv", "send"} /\ place = "io"
    /\ \/ /\ \E n \in 1 .. Length - total : total' = total + n
          /\ place' = "top"
          /\ UNCHANGED <<argVars, answer>>
       \/ /\ Return("-1") /\ UNCHANGED <<place, total>>
       \/ /\ call = "recv" /\ Return("0") /\ UNCHANGED <<place, total>>
    /\ UNCHANGED <<tick, fd, blocking, left, elapsed>>

\* Close.
Close ==
    /\ call = "none" /\ fd # "none"
    /\ fd' = "none"
    /\ UNCHANGED <<tick, blocking, argVars, place, total, left, elapsed, answer>>

\* A millisecond passes: select returns as soon as its time is up, the thread may be
\* late everywhere else.
Tick ==
    /\ call # "none"
    /\ place = "wait" => left # 0
    /\ elapsed < Wrap - 1
    /\ tick' = (tick + 1) % Wrap
    /\ elapsed' = elapsed + 1
    /\ left' = IF place = "wait" /\ left > 0 THEN left - 1 ELSE left
    /\ UNCHANGED <<fd, blocking, argVars, place, total, answer>>

SocketNext ==
    \/ \E t \in Timeouts : Connect(t) \/ Transfer("recv", t) \/ Transfer("send", t)
    \/ LoopTop \/ Ready \/ WaitExpires \/ Connected \/ MoveBytes \/ Close \/ Tick

SocketSpec == SocketInit /\ [][SocketNext]_sockVars

-----------------------------------------------------------------------------
\* A call never waits past its time-out: however often a transfer goes round its loop,
\* and wherever the tick count wraps, the time that has gone by and the time it is
\* about to wait together stay within what the caller allowed (SuperSocket.cpp 20-23
\* and 190-235).  A negative time-out makes Connect wait without end, and the
\* transfers give up at once.
DeadlineKept ==
    (call # "none" /\ place = "wait" /\ timeoutMs >= 0) =>
        left >= 0 /\ elapsed + left <= timeoutMs
=============================================================================
