---------------------------- MODULE MCTcpServer ----------------------------
(***************************************************************************)
(* Instances of a TcpServer with its Acceptor.                              *)
(***************************************************************************)
EXTENDS Acceptor

CONSTANTS c1, c2
=============================================================================
