---------------------------- MODULE MCTcpConnector ----------------------------
(* TcpConnector for TLC. *)
EXTENDS TcpConnectorInv, TLC

Symmetry == Permutations(Clients) \cup Permutations(IOContexts)
                \cup Permutations(Workers) \cup Permutations(AppThreads)
=============================================================================
