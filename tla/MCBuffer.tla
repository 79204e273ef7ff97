------------------------------ MODULE MCBuffer ------------------------------
(* Buffer on a small instance.                                              *)
EXTENDS Buffer, TLC

ByteSymmetry == Permutations(Data)
=============================================================================
