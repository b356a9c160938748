---------------------------- MODULE MCHttpService ----------------------------
(* HttpService for TLC: two requests that fit their packet exactly, and one    *)
(* TcpService would still accept that does not fit with its header.            *)
EXTENDS HttpService, TLC

Request(i, n) == [id |-> i, len |-> n]
MCHeader == Request(0, 1)
MCRequests == {Request(1, 3), Request(2, 3), Request(3, 4)}
MCPieces == MCRequests \union {MCHeader}
=============================================================================
