---------------------------- MODULE MCTcpServer ----------------------------
(* TcpServer on a small instance: no more than the bounds of the cfg.       *)
EXTENDS TcpServer
=============================================================================
