---------------------------- MODULE ConnectionLife ----------------------------
(***************************************************************************)
(* What a service promises of every connection it makes, whatever threads   *)
(* and completions do: it opens, disconnects, is closed and has its memory  *)
(* released, each once and in that order.  Only a connection the            *)
(* application has never heard of may be dropped on the way.                *)
(***************************************************************************)
CONSTANT Clients

VARIABLES
    phase,      \* where each id is in its life
    reported    \* the ids OnConnected or OnReceived has named to the application

Init == phase = [c \in Clients |-> "unused"] /\ reported = {}

Move(c, from, to) ==
    /\ phase[c] = from
    /\ phase' = [phase EXCEPT ![c] = to]
    /\ UNCHANGED reported

Allocate(c) == Move(c, "unused", "opening")
Establish(c) == Move(c, "opening", "open")
Disconnect(c) == Move(c, "open", "closing")
Close(c) == Move(c, "closing", "closed")
Release(c) == Move(c, "closed", "released")

Report(c) ==
    /\ phase[c] \in {"open", "closing", "closed"}
    /\ reported' = reported \cup {c}
    /\ UNCHANGED phase

Abandon(c) ==
    /\ c \notin reported
    /\ phase[c] \notin {"unused", "released"}
    /\ phase' = [phase EXCEPT ![c] = "released"]
    /\ UNCHANGED reported

Next == \E c \in Clients :
    \/ Allocate(c) \/ Establish(c) \/ Disconnect(c) \/ Close(c) \/ Release(c)
    \/ Report(c) \/ Abandon(c)

Spec == Init /\ [][Next]_<<phase, reported>>
=============================================================================
