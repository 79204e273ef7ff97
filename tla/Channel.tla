------------------------------ MODULE Channel ------------------------------
(***************************************************************************)
(* The arithmetic of a Channel (muduo/Channel.h, Channel.cpp): its event   *)
(* mask as a set of epoll bits, and which callbacks handleEvent makes of   *)
(* the bits that occurred.  Masks are parameters because the two constants *)
(* of Channel.cpp share EPOLLPRI, while the comments of Channel.h describe *)
(* masks without a common bit.                                             *)
(***************************************************************************)
EXTENDS Sequences

CONSTANTS
  kReadEvent,    \* the bits of enableReading
  kWriteEvent    \* the bits of enableWriting

EpollBits == {"EPOLLIN", "EPOLLPRI", "EPOLLOUT"}

(* epoll_wait reports these two whether they were asked for or not.         *)
Unasked == {"EPOLLHUP", "EPOLLERR"}

ASSUME MaskAssumption == kReadEvent \cup kWriteEvent \subseteq EpollBits

kNoneEvent == {}

EnableReading(events) == events \cup kReadEvent
DisableReading(events) == events \ kReadEvent
EnableWriting(events) == events \cup kWriteEvent
DisableWriting(events) == events \ kWriteEvent

IsNoneEvent(events) == events = kNoneEvent
IsWriting(events) == events \cap kWriteEvent # {}
IsReading(events) == events \cap kReadEvent # {}

(* handleEventWithGuard: the callbacks made for revents, in their order.    *)
Callbacks(revents) ==
  LET When(cond, callback) == IF cond THEN <<callback>> ELSE <<>>
  IN  When("EPOLLHUP" \in revents /\ "EPOLLIN" \notin revents, "close")
      \o When("EPOLLERR" \in revents, "error")
      \o When("EPOLLIN" \in revents, "read")
      \o When("EPOLLOUT" \in revents, "write")
=============================================================================
