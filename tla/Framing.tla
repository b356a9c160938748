------------------------------- MODULE Framing -------------------------------
(***************************************************************************)
(* How the bytes of a connection become packets: TcpClient::SplitPacket    *)
(* (Netlib/TcpClient.cpp), SplitHttpPacket (Netlib/TcpClientHttp.cpp), and *)
(* for an HTTP service what OnHttpPacket makes of a packet and how its      *)
(* answer leaves (Netlib/HttpServiceImplementer.cpp, PostSendHttp).        *)
(*                                                                         *)
(* A byte stream is a sequence of tokens [t, v]: the size field of a TCP   *)
(* packet is one token with its value and fillers for its other bytes; of  *)
(* an HTTP request the request line, "\r\n", a header's name, a digit and  *)
(* a byte of the body are a token each.  The buffer is kept byte for byte, *)
(* the bytes past mRecvBytes included: the HTTP parser reads them.         *)
(***************************************************************************)
EXTENDS Integers, Sequences, SequencesExt, FiniteSetsExt

CONSTANTS
    MaxPacket,    \* mMaxPacketSize
    Offset,       \* mPacketSizeOffset
    SizeOfInt,
    IntMax,       \* the largest int; sums wrap around beyond it
    RecvSizes,    \* the most bytes a WSARecv may find
    Margin,       \* the 128 bytes PostSendHttp leaves
    Connections,  \* the streams peers send: [protocol, messages, pipelined]
    OldBuffers,   \* what a buffer of the pool may still hold, and what is behind it
    Responses,    \* the lengths of answers: [head, body]
    EarlyAnswers  \* may an answer be sent before OnReceived's caller goes on?

VARIABLES
    peer,         \* the element of Connections the peer is
    arrived,      \* how many tokens of its stream were received
    leftSize,     \* those of the last WSARecv still to be copied
    buf,          \* mRecvPacketBuffer, or <<>> for NULL
    behind,       \* does the memory behind the buffer hold a header's end?
    mRecvBytes,
    splitPC,      \* "recv", "split", "parse", "mark" or "closed"
    error,        \* what the splitter returned
    isConnected,  \* mConnState = CONN_CONNECTED
    mCloseAfterSend,
    delivered,    \* the packets OnReceived was called with
    served,       \* what OnHttpPacket did with each packet it was given
    answered,     \* the packets whose answer was sent completely
    unsent        \* those whose answer SendResponse did not get out

framingVars == <<peer, arrived, leftSize, buf, behind, mRecvBytes, splitPC, error, isConnected,
                 mCloseAfterSend, delivered, served, answered, unsent>>

\* A token; the code of atoi tells a digit by its value.
Token == {k \in [t : STRING, v : Int] : k.t = "digit" => k.v \in 0..9}

Bytes == [i \in DOMAIN peer.messages |-> peer.messages[i].bytes]
Stream == FlattenSeq(Bytes)
Http == peer.protocol = "http"
Is(b, i, what) == i \in DOMAIN b /\ b[i].t = what
Least(S, none) == IF S = {} THEN none ELSE Min(S)

-----------------------------------------------------------------------------
(* The parser of SplitHttpPacket and OnHttpPacket. *)

\* strstr(data, "\r\n\r\n"), as far as the first NUL: the index of its end, which is
\* headerSize; 0 if there is none, beyond the buffer if only the memory there has one.
FirstNul(b) == Least({i \in DOMAIN b : Is(b, i, "nul")}, Len(b) + 1)
HeaderEnd(b) ==
    Least({i \in 2..(FirstNul(b) - 1) : Is(b, i, "crlf") /\ Is(b, i - 1, "crlf")}, 0)
HeaderSize(b) ==
    IF HeaderEnd(b) = 0 /\ behind /\ FirstNul(b) > Len(b) THEN MaxPacket + 1 ELSE HeaderEnd(b)

\* The lines of the header whose name is one of "names": the places of the names.
HeaderLines(b, end, names) ==
    {i \in 2..(end - 1) : i \in DOMAIN b /\ b[i].t \in names /\ Is(b, i - 1, "crlf")}

\* atoi: a sign, then digits up to the first other byte; too many give INT_MAX.
Number(digits) ==
    LET value[k \in 0..Len(digits)] ==
            IF k = 0 THEN 0 ELSE Min({IntMax, 10 * value[k - 1] + digits[k].v})
    IN  value[Len(digits)]
Atoi(b, i) ==
    LET sign == Is(b, i, "minus")
        from == IF sign THEN i + 1 ELSE i
        to == Least({j \in from..Len(b) : ~Is(b, j, "digit")}, Len(b) + 1)
        n == Number(SubSeq(b, from, to - 1))
    IN  IF sign THEN -n ELSE n

\* The value of the first header that is named so; none means 0.
LengthOf(b, end, names) ==
    LET lines == HeaderLines(b, end, names) IN IF lines = {} THEN 0 ELSE Atoi(b, Min(lines) + 1)
GetContentLength(b, end) == LengthOf(b, end, {"Content-Length"})
IsConnectionClose(b, end) == HeaderLines(b, end, {"Connection: close"}) # {}

WrapInt(n) == IF n > IntMax THEN n - 2 * (IntMax + 1) ELSE n

\* What a turn of the splitter's inner loop decides: the size of the packet at the
\* front of the buffer, 0 if it is not complete, or -1 if the stream is illegal.
TcpPacketBelow(max) ==
    IF mRecvBytes < Offset + SizeOfInt THEN 0
    ELSE LET size == buf[Offset + 1].v IN
         IF size < SizeOfInt \/ size > max THEN -1
         ELSE IF mRecvBytes < size THEN 0 ELSE size
TcpPacketStrict == TcpPacketBelow(MaxPacket - 1)
TcpPacket == TcpPacketBelow(MaxPacket)

HttpPacket ==
    LET headerSize == HeaderSize(buf)
        contentLength == GetContentLength(buf, headerSize)
        size == WrapInt(headerSize + contentLength)
    IN  IF headerSize = 0 THEN 0
        ELSE IF contentLength < 0 \/ size <= 0 \/ size > MaxPacket THEN -1
        ELSE IF mRecvBytes < size THEN 0 ELSE size

NextPacket == IF Http THEN HttpPacket ELSE TcpPacket

-----------------------------------------------------------------------------
(* The peers: a message is [bytes, legal, close, body], where what is legal,   *)
(* asks for the connection to be closed and belongs to the body is read off    *)
(* the message alone, wherever a receive may cut it.                           *)

Message == [bytes : Seq(Token), legal : BOOLEAN, close : BOOLEAN, body : Seq(Token)]

\* A legal packet says its own size in its size field.
IsTcpMessage(m) ==
    /\ Len(m.bytes) >= Offset + SizeOfInt
    /\ LET size == m.bytes[Offset + 1].v IN
       IF m.legal THEN size = Len(m.bytes) /\ size \in SizeOfInt..MaxPacket
       ELSE size < SizeOfInt \/ size > MaxPacket

\* A legal request is a header and as many bytes as its Content-Length says; one is
\* illegal that has a length no buffer has, or no header's end where a buffer ends.
IsHttpMessage(m) ==
    LET end == HeaderEnd(m.bytes)
        contentLength == GetContentLength(m.bytes, end)
    IN  IF m.legal
        THEN /\ end > 0 /\ contentLength >= 0
             /\ Len(m.bytes) = end + contentLength /\ Len(m.bytes) <= MaxPacket
             /\ m.close = IsConnectionClose(m.bytes, end)
             /\ m.body = SubSeq(m.bytes, end + 1, Len(m.bytes))
        ELSE IF end \in 1..MaxPacket
        THEN contentLength < 0 \/ end + contentLength > MaxPacket
        ELSE Len(m.bytes) > MaxPacket

IsPeer(p) ==
    /\ p.protocol \in {"tcp", "http"} /\ p.pipelined \in BOOLEAN
    /\ p.messages \in Seq(Message) /\ Len(p.messages) > 0
    /\ \A i \in DOMAIN p.messages :
          IF p.protocol = "http" THEN IsHttpMessage(p.messages[i]) ELSE IsTcpMessage(p.messages[i])

ASSUME SizeAssumption ==
    /\ Offset \in Nat /\ SizeOfInt \in Nat \ {0}
    /\ MaxPacket \in Nat \ {0} /\ IntMax \in Nat /\ MaxPacket <= IntMax
    /\ RecvSizes \subseteq Nat \ {0}
ASSUME PeerAssumption == \A p \in Connections : IsPeer(p)
ASSUME BufferAssumption ==
    \A old \in OldBuffers :
        old.bytes \in Seq(Token) /\ Len(old.bytes) = MaxPacket /\ old.behind \in BOOLEAN

-----------------------------------------------------------------------------
(* The worker that has completed a receive. *)

SetDisconnect == isConnected' = FALSE

\* A peer that does not pipeline sends its next request when it has an answer.
Ends(n) == Len(FlattenSeq(SubSeq(Bytes, 1, n)))
MayArrive ==
    IF peer.pipelined THEN Len(Stream)
    ELSE LET due == {n \in 1..Len(peer.messages) : \A i \in 1..(n - 1) : i \in answered}
         IN  Ends(Max(due))

Recv(n) ==
    /\ splitPC = "recv" /\ isConnected
    /\ arrived < MayArrive
    /\ leftSize' = Min({n, MayArrive - arrived})
    /\ arrived' = arrived + leftSize'
    /\ splitPC' = "split"
    /\ UNCHANGED <<peer, buf, behind, mRecvBytes, error, isConnected, mCloseAfterSend, delivered,
                   served, answered, unsent>>

ReturnCode(code) ==
    /\ error' = code
    /\ splitPC' = "closed"
    /\ SetDisconnect

\* The head of the splitter's outer loop: the first receive takes a buffer from the
\* pool, whatever it holds, and as much is copied as has room.
CannotAllocate ==
    /\ splitPC = "split" /\ leftSize > 0 /\ buf = <<>>
    /\ ReturnCode("NSE_RECV_QUEUE_FULL")
    /\ UNCHANGED <<peer, arrived, leftSize, buf, behind, mRecvBytes, mCloseAfterSend, delivered,
                   served, answered, unsent>>

Overlay(b, at, s) ==
    [i \in 1..MaxPacket |-> IF i \in (at + 1)..(at + Len(s)) THEN s[i - at] ELSE b[i]]

Copy ==
    /\ splitPC = "split" /\ leftSize > 0
    /\ \E old \in IF buf = <<>> THEN OldBuffers ELSE {[bytes |-> buf, behind |-> behind]} :
          LET n == Min({leftSize, MaxPacket - mRecvBytes})
              from == arrived - leftSize
          IN  IF n <= 0
              THEN /\ ReturnCode("NSE_ILLEGAL_RECV_PACKET")
                   /\ UNCHANGED <<leftSize, buf, behind, mRecvBytes>>
              ELSE /\ buf' = Overlay(old.bytes, mRecvBytes, SubSeq(Stream, from + 1, from + n))
                   /\ behind' = old.behind
                   /\ mRecvBytes' = mRecvBytes + n
                   /\ leftSize' = leftSize - n
                   /\ splitPC' = "parse"
                   /\ UNCHANGED <<error, isConnected>>
    /\ UNCHANGED <<peer, arrived, mCloseAfterSend, delivered, served, answered, unsent>>

\* No packet is complete: the next part is copied, or the next receive is posted,
\* which fails if the connection was closed meanwhile.
Break ==
    /\ splitPC = "parse" /\ NextPacket = 0
    /\ splitPC' = IF leftSize > 0 THEN "split" ELSE IF isConnected THEN "recv" ELSE "closed"
    /\ UNCHANGED <<peer, arrived, leftSize, buf, behind, mRecvBytes, error, isConnected,
                   mCloseAfterSend, delivered, served, answered, unsent>>

Illegal ==
    /\ splitPC = "parse" /\ NextPacket = -1
    /\ ReturnCode("NSE_ILLEGAL_RECV_PACKET")
    /\ UNCHANGED <<peer, arrived, leftSize, buf, behind, mRecvBytes, mCloseAfterSend, delivered,
                   served, answered, unsent>>

\* OnReceived, which refuses a packet when its queue is full.
Deliver ==
    /\ splitPC = "parse" /\ NextPacket > 0
    /\ \/ /\ delivered' = Append(delivered, SubSeq(buf, 1, NextPacket))
          /\ splitPC' = "mark"
          /\ UNCHANGED <<error, isConnected>>
       \/ ReturnCode("NSE_BE_CLOSED") /\ UNCHANGED delivered
    /\ UNCHANGED <<peer, arrived, leftSize, buf, behind, mRecvBytes, mCloseAfterSend, served,
                   answered, unsent>>

\* memmove of what follows the packet; the bytes behind it stay what they were.
ConsumeTo(next, size) ==
    /\ mRecvBytes' = mRecvBytes - size
    /\ buf' = IF mRecvBytes > size
              THEN Overlay(buf, 0, SubSeq(buf, size + 1, mRecvBytes))
              ELSE buf
    /\ splitPC' = next

\* What follows OnReceived: the answer may be on its way before mCloseAfterSend is set.
MarkThen(next) ==
    /\ splitPC = "mark"
    /\ mCloseAfterSend' = (Http /\ IsConnectionClose(buf, HeaderSize(buf)))
    /\ ConsumeTo(next, NextPacket)
    /\ UNCHANGED <<peer, arrived, leftSize, behind, error, isConnected, delivered, served,
                   answered, unsent>>
MarkOnce == MarkThen(IF leftSize > 0 THEN "split" ELSE "recv")
Mark == MarkThen("parse")

-----------------------------------------------------------------------------
(* The HTTP service's threads, and the completion of what they send. *)

\* HttpHeaders::Find compares only as many bytes as the header's own name has: a
\* name that is a part of Content-Length is taken for it.
FindLength(packet, end) == LengthOf(packet, end, {"Content-Length", "Content"})

\* OnHttpPacket: nothing for what it cannot read, else what it calls.
HttpPacketWithin(packet, len) ==
    LET headerSize == HeaderSize(packet)
        bodyLen == FindLength(packet, headerSize)
    IN  IF \/ packet[1].t = "malformed"
           \/ headerSize = 0 \/ headerSize >= Len(packet)
           \/ headerSize + bodyLen > len
        THEN [to |-> "nobody", body |-> <<>>]
        ELSE [to |-> IF packet[1].t = "POST /route" THEN "handler" ELSE "notFound",
              body |-> SubSeq(packet, headerSize + 1, headerSize + bodyLen)]
OnHttpPacketStrict(packet) == HttpPacketWithin(packet, Len(packet) - 1)
OnHttpPacket(packet) == HttpPacketWithin(packet, Len(packet))

Serve(i) ==
    /\ Http
    /\ i = Len(served) + 1 /\ i <= Len(delivered)
    /\ served' = Append(served, OnHttpPacket(delivered[i]))
    /\ UNCHANGED <<peer, arrived, leftSize, buf, behind, mRecvBytes, splitPC, error, isConnected,
                   mCloseAfterSend, delivered, answered, unsent>>

\* _snprintf_s with _TRUNCATE: -1 if the answer does not fit, and -1 as the length of
\* a WSABUF is more than any buffer has.
SendLen(r) == IF r.head + r.body < MaxPacket - Margin THEN r.head + r.body ELSE -1
SendResponse(r) ==
    IF r.body > MaxPacket THEN "refused" ELSE IF SendLen(r) < 0 THEN "overrun" ELSE "sent"

\* The answer to request i and its completion: OnSendCompletion closes the connection
\* if the last request that was split asked for it.  The service has several threads
\* and answers in any order.
AnswerThen(i, close) ==
    /\ Http /\ isConnected
    /\ i \in 1..Len(served) /\ i \notin answered \union unsent /\ served[i].to # "nobody"
    /\ EarlyAnswers \/ splitPC # "mark"
    /\ \E r \in Responses :
          IF SendResponse(r) = "sent"
          THEN answered' = answered \union {i} /\ isConnected' = ~close /\ unsent' = unsent
          ELSE unsent' = unsent \union {i} /\ UNCHANGED <<answered, isConnected>>
    /\ UNCHANGED <<peer, arrived, leftSize, buf, behind, mRecvBytes, splitPC, error,
                   mCloseAfterSend, delivered, served>>
AnswerKeepsOpen(i) == AnswerThen(i, FALSE)
Answer(i) == AnswerThen(i, mCloseAfterSend)

-----------------------------------------------------------------------------
FramingInit ==
    /\ peer \in Connections
    /\ arrived = 0 /\ leftSize = 0
    /\ buf = <<>> /\ behind = FALSE /\ mRecvBytes = 0
    /\ splitPC = "recv" /\ error = "none" /\ isConnected = TRUE
    /\ mCloseAfterSend = FALSE
    /\ delivered = <<>> /\ served = <<>> /\ answered = {} /\ unsent = {}

FramingNext ==
    \/ \E n \in RecvSizes : Recv(n)
    \/ CannotAllocate \/ Copy \/ Break \/ Illegal \/ Deliver \/ Mark
    \/ \E i \in 1..Len(delivered) : Serve(i) \/ Answer(i)

FramingSpec == FramingInit /\ [][FramingNext]_framingVars

-----------------------------------------------------------------------------
(* Properties. *)

FramingTypeOK ==
    /\ mRecvBytes \in 0..MaxPacket /\ leftSize \in 0..arrived /\ arrived \in 0..Len(Stream)
    /\ buf = <<>> \/ Len(buf) = MaxPacket
    /\ splitPC \in {"recv", "split", "parse", "mark", "closed"}
    /\ answered \subseteq 1..Len(served) /\ Len(served) <= Len(delivered)

(* However the stream is cut into receives, the packets handed to OnReceived  *)
(* are the peer's messages, each whole and in order, none of them illegal, and *)
(* when the next receive is posted every message that has arrived completely  *)
(* was handed on (SplitPacket and SplitHttpPacket).                           *)
DeliveredExact ==
    /\ delivered = SubSeq(Bytes, 1, Len(delivered))
    /\ \A i \in DOMAIN delivered : peer.messages[i].legal
    /\ splitPC = "recv" => \A n \in DOMAIN Bytes : Ends(n) <= arrived <=> n <= Len(delivered)

(* A connection is refused as illegal for a message that is, unless the HTTP  *)
(* parser ran past mRecvBytes into bytes an earlier packet left there.            *)
RanIntoOldBytes == Http /\ HeaderSize(buf) > mRecvBytes
LegalAccepted ==
    error = "NSE_ILLEGAL_RECV_PACKET" =>
        ~peer.messages[Len(delivered) + 1].legal \/ RanIntoOldBytes

(* To a peer that waits for its answers the service closes the connection     *)
(* after the answer of the first request that asks for it, and not before.    *)
CloseAsAsked ==
    Http /\ ~peer.pipelined /\ error = "none" =>
        /\ ~isConnected => \E i \in answered : peer.messages[i].close
        /\ \A i \in answered : peer.messages[i].close => ~isConnected

(* The two parsers agree: a request with a body whose names are all whole is  *)
(* given to its handler with exactly the body the peer sent.                  *)
Readable(m) == m.body # <<>> /\ m.bytes[1].t # "malformed"
               /\ \A i \in DOMAIN m.bytes : m.bytes[i].t # "Content"
ServedAsFramed ==
    \A i \in DOMAIN served :
        Readable(peer.messages[i]) => /\ served[i].to # "nobody"
                                      /\ served[i].body = peer.messages[i].body

(* HttpServiceImplementer.cpp:149 names "GET / HTTP/1.1" as the shortest      *)
(* request: a legal request without a body is answered too.                   *)
RequestsAnswered ==
    \A i \in DOMAIN served : peer.messages[i].bytes[1].t # "malformed" => served[i].to # "nobody"
=============================================================================
