----------------------------- MODULE MCTcpServer -----------------------------
(***************************************************************************)
(* TcpServer for TLC: the connections are interchangeable in safety runs.  *)
(***************************************************************************)
EXTENDS TcpServerProperties, TLC

ConnSymmetry == Permutations(Conn)
=============================================================================
