---------------------------- MODULE MCEventLoop ----------------------------
(* EventLoop on a small instance.  Threads and functors are kept apart by   *)
(* the fairness of each thread, so no symmetry is declared.                 *)
EXTENDS EventLoop, TLC
=============================================================================
