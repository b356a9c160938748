---------------------------- MODULE FramingInputs ----------------------------
(* Peers and their streams for Framing: packets of up to MaxPacket tokens.     *)
EXTENDS Framing

Tok(t) == [t |-> t, v |-> 0]
Digit(n) == [t |-> "digit", v |-> n]
Text(n) == [i \in 1..n |-> Tok("x")]

\* A TCP packet: what is before the size field, the field, the rest.
Tcp(size, legal) ==
    [bytes |-> <<Tok("x"), [t |-> "size", v |-> size], Tok("x")>> \o Text(Max({size, 3}) - 3),
     legal |-> legal, close |-> FALSE, body |-> <<>>]
TcpMessages ==
    {Tcp(size, TRUE) : size \in {3, 6, 20}} \cup {Tcp(size, FALSE) : size \in {1, -1, 21}}

Line(name, value) == <<Tok(name)>> \o value \o <<Tok("crlf")>>
Request(first, headers, n, legal, close) ==
    [bytes |-> Line(first, <<>>) \o headers \o <<Tok("crlf")>> \o Text(n),
     legal |-> legal, close |-> close, body |-> Text(n)]
LengthLine(digits) == Line("Content-Length", digits)
Post(n, headers) == Request("POST /route", headers, n, TRUE, FALSE)
Short == Post(2, LengthLine(<<Digit(2)>>))
HttpMessages ==
    {Post(10, LengthLine(<<Digit(1), Digit(0)>>)),
     Short,
     Post(2, Line("Content", <<Digit(9)>>) \o LengthLine(<<Digit(2)>>)),
     Request("GET /other", Line("Connection: close", <<>>), 0, TRUE, TRUE),
     Request("malformed", LengthLine(<<Digit(1)>>), 1, TRUE, FALSE),
     Request("POST /route", LengthLine(<<Tok("minus"), Digit(1)>>), 0, FALSE, FALSE),
     Request("POST /route", LengthLine(<<Digit(6), Digit(1)>>), 0, FALSE, FALSE)}
Closing ==
    Request("POST /route", Line("Connection: close", <<>>) \o LengthLine(<<Digit(1)>>), 1, TRUE, TRUE)
\* A header that fills the buffer and has no end there.
Endless == Request("GET /other", Text(MaxPacket), 0, FALSE, FALSE)

Peer(protocol, messages, pipelined) ==
    [protocol |-> protocol, messages |-> messages, pipelined |-> pipelined]
MCConnections ==
    {Peer("tcp", <<m, n>>, TRUE) : m, n \in TcpMessages}
    \cup {Peer("http", <<m, n>>, p) :
             m \in HttpMessages, n \in HttpMessages \cup {Closing}, p \in BOOLEAN}
    \cup {Peer("http", <<m, Endless>>, p) : m \in {Short, Endless}, p \in BOOLEAN}
    \cup {Peer("http", <<Closing, Short>>, p) : p \in BOOLEAN}

\* Memory the heap never wrote, and what an earlier connection left.
MCOldBuffers ==
    {[bytes |-> [i \in 1..MaxPacket |-> Tok("nul")], behind |-> FALSE]}
    \cup {[bytes |-> [i \in 1..MaxPacket |-> Tok("x")], behind |-> b] : b \in BOOLEAN}

MCResponses == {[head |-> 2, body |-> 3], [head |-> 2, body |-> 18], [head |-> 2, body |-> 21]}
FirstPeer == Peer("tcp", <<Tcp(3, TRUE), Tcp(3, TRUE)>>, TRUE)
=============================================================================
