----------------------------- MODULE MCTcpServer -----------------------------
(* TcpServer for TLC: one accept outstanding at a time, so that a connection *)
(* and the one pre-posted behind it live together.                           *)
EXTENDS TcpServerLifeInv, TLC

Symmetry == Permutations(Clients) \cup Permutations(IOContexts)
                \cup Permutations(Workers) \cup Permutations(AppThreads)
=============================================================================
