----------------------------- MODULE MCObserver -----------------------------
(* Observer on a small instance.                                            *)
EXTENDS Observer
=============================================================================
