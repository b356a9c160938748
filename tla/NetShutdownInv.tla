---------------------------- MODULE NetShutdownInv ----------------------------
(***************************************************************************)
(* The inductive invariant behind a safe shutdown.  A client in the table   *)
(* is in one place: its operation is with the kernel, or its packet in the  *)
(* port, or a worker has it in hand.  mPendingAcceptCount counts the accepts *)
(* outstanding and the workers that handle one, so mReleaeseAcceptorEvent    *)
(* says that none is left; and with none left no connection is new.  The    *)
(* invariant is for waits that are long enough (WaitsExpire FALSE).          *)
(***************************************************************************)
EXTENDS NetShutdown

Packets == [client : Clients, ok : BOOLEAN]
InPort(c) == \E i \in DOMAIN port : port[i] # Poison /\ port[i].client = c

\* A worker that has a client in hand, one that handles a completed accept, and main
\* once it has seen the end of the acceptor, or of the table.
HandPCs == {"accept", "drop", "received", "remove", "acceptEx", "unpost"}
AcceptPCs == {"accept", "drop", "repost", "acceptEx", "unpost", "decrement"}
BlankPCs == {"init", "serve", "uninit", "joinAssist", "waitExits", "done"}
ServingPCs == {"running", "removeService", "postCancel", "waitAcceptor"}
CancelledPCs == {"poll", "nap", "release"}
AfterPCs == {"delete", "uninit", "joinAssist", "waitExits", "done"}

ThreadTypeOK ==
    /\ wpc \in [Workers -> {"get", "leave", "exited"} \cup ServiceCode]
    /\ wcur \in [Workers -> Clients \cup {Poison}]
    /\ mThreads \subseteq Workers

\* Before the service starts there is none of it; once stopped, it stays stopped.
PhaseInv ==
    /\ \/ pools = "none" /\ mainPC \in BlankPCs
       \/ pools = "live" /\ mainPC \in ServingPCs \cup {"cancel"} \cup CancelledPCs
       \/ pools = "freed" /\ mainPC \in AfterPCs
    /\ pools = "none" =>
          /\ \A c \in Clients : conn[c] = "unused"
          /\ pending = 0 /\ event = "none"
          /\ \A w \in Workers : wpc[w] \notin ServiceCode
    /\ pools # "none" /\ mainPC # "running" => mMarkedStop
    /\ mainPC = "init" => \A w \in Workers : wpc[w] = "exited"
    /\ mainPC \in {"init", "serve"} => port = <<>>
    /\ running = {} =>
          /\ \A w \in Workers : wpc[w] = "exited"
          /\ \A c \in Clients : conn[c] # "open"

\* One place for each client in the table, none for the others.
Held(c) == \E w \in Workers : wpc[w] \in HandPCs /\ wcur[w] = c
MapInv == \A c \in Clients : c \in clientMap <=> conn[c] \in {"accepting", "open"}
WhereInv ==
    \A c \in Clients :
        /\ c \in clientMap <=> op[c] \/ InPort(c) \/ Held(c)
        /\ ~(op[c] /\ InPort(c))
HandInv ==
    \A w \in Workers : wpc[w] \in HandPCs =>
        /\ wcur[w] \in clientMap
        /\ ~op[wcur[w]] /\ ~InPort(wcur[w])
        /\ \A v \in Workers : wpc[v] \in HandPCs /\ wcur[v] = wcur[w] => v = w
        /\ wpc[w] \in {"accept", "acceptEx", "unpost"} => Accepting(wcur[w])
        /\ wpc[w] \in {"received", "remove"} => ~Accepting(wcur[w])
OnePacket ==
    \A i, j \in DOMAIN port :
        port[i] # Poison /\ port[j] # Poison /\ port[i].client = port[j].client => i = j
PlaceInv == MapInv /\ WhereInv /\ HandInv /\ OnePacket

\* mPendingAcceptCount.
Outstanding == {c \in Clients : Accepting(c) /\ ~Held(c)}
AcceptWorkers == {w \in Workers : wpc[w] \in AcceptPCs}
AcceptExs == {w \in Workers : wpc[w] = "acceptEx"}
PendingCounts ==
    pending = Cardinality(Outstanding) + Cardinality(AcceptWorkers) + Cardinality(AcceptExs)

\* The acceptor has come to its end: its count, the worker that releases it, the event.
NoAccepts ==
    /\ \A c \in Clients : ~Accepting(c)
    /\ \A w \in Workers : wpc[w] \notin AcceptPCs
AcceptorGone == NoAccepts /\ \A w \in Workers : wpc[w] # "release"
ReleaseInv ==
    /\ \A w \in Workers : wpc[w] = "release" =>
          NoAccepts /\ \A v \in Workers : wpc[v] = "release" => v = w
    /\ event = "set" => AcceptorGone

\* What main knows after each of its waits.
StopInv ==
    /\ running # {} /\ mainPC \in {"cancel"} \cup CancelledPCs => AcceptorGone
    /\ NoLateConnection
    /\ running # {} /\ (mainPC = "release" \/ pools = "freed") => AcceptorGone /\ clientMap = {}

ShutdownInv ==
    TypeOK /\ ThreadTypeOK /\ PhaseInv /\ PlaceInv /\ PendingCounts /\ ReleaseInv /\ StopInv
=============================================================================
