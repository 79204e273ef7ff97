----------------------------- MODULE TaskQueue -----------------------------
(***************************************************************************)
(* What an event loop promises to the threads that hand it functors, with  *)
(* nothing said about wakeups, batches or polling:                         *)
(*                                                                         *)
(*   - a functor handed over with queueInLoop joins the end of one queue;  *)
(*   - the loop runs functors from the head of that queue, one at a time,  *)
(*     and only while it is looping;                                       *)
(*   - runInLoop called on the loop's own thread runs its functor at once, *)
(*     ahead of everything queued;                                         *)
(*   - nothing is lost, run twice or reordered.                            *)
(*                                                                         *)
(* EventLoop implements this specification: see TaskQueueRefined there.    *)
(***************************************************************************)
EXTENDS Naturals, Sequences

CONSTANT Functors    \* every functor a caller may submit; each at most once

VARIABLES
  submitted,   \* functors handed to the loop so far
  queue,       \* those waiting for the loop, oldest first
  ran,         \* those the loop has started, in the order it started them
  open         \* TRUE while the loop is looping

vars == <<submitted, queue, ran, open>>

Init ==
  /\ submitted = {}
  /\ queue = <<>>
  /\ ran = <<>>
  /\ open = FALSE

(* queueInLoop, and runInLoop from another thread. *)
Submit(f) ==
  /\ f \notin submitted
  /\ submitted' = submitted \cup {f}
  /\ queue' = Append(queue, f)
  /\ UNCHANGED <<ran, open>>

(* runInLoop on the loop's own thread. *)
RunNow(f) ==
  /\ f \notin submitted
  /\ submitted' = submitted \cup {f}
  /\ ran' = Append(ran, f)
  /\ UNCHANGED <<queue, open>>

(* The loop takes the oldest functor and runs it. *)
Execute ==
  /\ open
  /\ queue # <<>>
  /\ ran' = Append(ran, Head(queue))
  /\ queue' = Tail(queue)
  /\ UNCHANGED <<submitted, open>>

(* loop() is entered or left. *)
OpenOrClose ==
  /\ open' = ~open
  /\ UNCHANGED <<submitted, queue, ran>>

Next ==
  \/ \E f \in Functors : Submit(f) \/ RunNow(f)
  \/ Execute
  \/ OpenOrClose

SafeSpec == Init /\ [][Next]_vars
=============================================================================
