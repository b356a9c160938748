--------------------------- MODULE RequestChannel ---------------------------
(***************************************************************************)
(* What a service promises of the requests it has accepted: they are taken *)
(* in the order they were accepted, each by one thread, and each is        *)
(* answered at most once, by a thread that took it.                        *)
(***************************************************************************)
EXTENDS Sequences, SequencesExt

CONSTANT Requests

VARIABLES
    pending,  \* the requests accepted and not taken, oldest first
    taken,    \* the requests a thread has taken
    answered  \* the requests answered, in order

Init == pending = <<>> /\ taken = {} /\ answered = <<>>

Accept(q) ==
    /\ q \notin taken \union ToSet(pending)
    /\ pending' = Append(pending, q)
    /\ UNCHANGED <<taken, answered>>

Take ==
    /\ pending # <<>> /\ Head(pending) \notin taken
    /\ taken' = taken \union {Head(pending)}
    /\ pending' = Tail(pending)
    /\ UNCHANGED answered

Answer(q) ==
    /\ q \in taken \ ToSet(answered)
    /\ answered' = Append(answered, q)
    /\ UNCHANGED <<pending, taken>>

Next == Take \/ \E q \in Requests : Accept(q) \/ Answer(q)

Spec == Init /\ [][Next]_<<pending, taken, answered>>
=============================================================================
