------------------------- MODULE MCEventLoopThread -------------------------
(* EventLoopThread on small instances.                                      *)
EXTENDS EventLoopThread, TLC
=============================================================================
