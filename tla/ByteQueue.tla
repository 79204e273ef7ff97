----------------------------- MODULE ByteQueue -----------------------------
(***************************************************************************)
(* What the comments of Buffer.h promise of a Buffer: the bytes given to   *)
(* it, by append and by readFd, leave in the order in which they came.     *)
(***************************************************************************)
EXTENDS Naturals, Sequences

CONSTANT Data  \* the bytes that are given

VARIABLES
  queue,  \* the readable bytes
  given,  \* the bytes the last operation was given
  out     \* the bytes the last operation handed out

qvars == <<queue, given, out>>

QInit == queue = <<>> /\ given = <<>> /\ out = <<>>

(* append and readFd: what is given joins at the back.                      *)
Join ==
  /\ given' \in Seq(Data)
  /\ queue' = queue \o given'
  /\ out' = <<>>

(* The first n bytes go, handed out or dropped.                             *)
Take(n) ==
  /\ queue' = SubSeq(queue, n + 1, Len(queue))
  /\ given' = <<>>
  /\ out' \in {SubSeq(queue, 1, n), <<>>}

(* The first n bytes are looked at, and stay.                               *)
Look(n) ==
  /\ queue' = queue
  /\ given' = <<>>
  /\ out' = SubSeq(queue, 1, n)

QNext == Join \/ \E n \in 0 .. Len(queue) : Take(n) \/ Look(n)

QSpec == QInit /\ [][QNext]_qvars
=============================================================================
