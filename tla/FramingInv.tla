------------------------------ MODULE FramingInv ------------------------------
(***************************************************************************)
(* The inductive invariant behind exact framing.  What the peer sent is in   *)
(* three parts: consumed, which is a number of whole messages, in the buffer *)
(* behind them, and received but not yet copied.  So the bytes the parsers   *)
(* look at begin where a message begins, however the stream was cut, and     *)
(* what is behind mRecvBytes is whatever it was before.                      *)
(***************************************************************************)
EXTENDS Framing

Count == Len(peer.messages)

\* The buffer, or none yet, and how much of it is in use.
BufferOK ==
    /\ buf \in Seq(Token) /\ (Len(buf) = 0 \/ Len(buf) = MaxPacket)
    /\ mRecvBytes \in 0..Len(buf)
    /\ behind \in BOOLEAN

\* The buffer holds what the peer sent after its first n messages.
Holds(n) ==
    /\ n \in 0..Count
    /\ Ends(n) + mRecvBytes <= Len(Stream)
    /\ \A k \in 1..mRecvBytes : buf[k] = Stream[Ends(n) + k]

SplitterPCs == {"recv", "split", "parse", "mark", "closed"}

\* The messages that were taken out of the buffer: while OnReceived's caller has not gone
\* on, the last one delivered is still at its front.
Consumed == IF splitPC = "mark" THEN Len(delivered) - 1 ELSE Len(delivered)

\* Each token that arrived was consumed, or is in the buffer or still to be copied there.
PlacesInv ==
    /\ peer \in Connections /\ BufferOK
    /\ arrived \in Nat /\ leftSize \in Nat /\ splitPC \in SplitterPCs
    /\ Ends(Consumed) + mRecvBytes + leftSize = arrived
    /\ arrived <= Len(Stream)
    /\ Holds(Consumed)

\* What was delivered are the first messages.
DeliveredInv ==
    /\ Len(delivered) \in 0..Count
    /\ delivered = SubSeq(Bytes, 1, Len(delivered))
    /\ \A i \in 1..Len(delivered) : peer.messages[i].legal

\* What the inner loop has found where the splitter is.
TurnInv ==
    /\ splitPC = "mark" => NextPacket > 0
    /\ splitPC \in {"recv", "split"} => NextPacket = 0
    /\ splitPC = "recv" => leftSize = 0

SplitterInv == PlacesInv /\ DeliveredInv /\ TurnInv

\* A splitter that has refused the stream stays where it is.
RefusedInv == (error # "none" => splitPC = "closed") /\ LegalAccepted

\* What becomes of a packet in the service, and which of them are answered.
Outcome == [to : {"nobody", "handler", "notFound"}, body : Seq(Token)]
ServiceInv ==
    /\ served \in Seq(Outcome) /\ Len(served) <= Len(delivered)
    /\ answered \subseteq 1..Len(served)
    /\ ServedAsFramed

\* A peer that waits for its answers has sent one request more than were answered at
\* most, and what the last request split asked for is known before it is answered.
CloseInv ==
    Http /\ ~peer.pipelined /\ error = "none" =>
        /\ \E k \in 1..Count : arrived <= Ends(k) /\ \A i \in 1..(k - 1) : i \in answered
        /\ splitPC # "mark" /\ Len(delivered) > 0 =>
              mCloseAfterSend = peer.messages[Len(delivered)].close
        /\ ~isConnected => \E i \in answered : peer.messages[i].close
        /\ \A i \in answered : peer.messages[i].close => ~isConnected
=============================================================================
