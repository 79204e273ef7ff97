---------------------------- MODULE EpollPoller ----------------------------
(***************************************************************************)
(* An EpollPoller (muduo/EpollPoller.cpp) with the channels of one loop:   *)
(* what the poller believes about a channel (its index_ and channels_),    *)
(* what the kernel was told (the interest list of epoll_fd_), and what     *)
(* poll makes of the array events_.  All of it belongs to the loop's       *)
(* thread; channels change in callbacks and in pending functors, and are   *)
(* destroyed, with their descriptor, only in pending functors.             *)
(***************************************************************************)
EXTENDS Channel, Integers, Functions

CONSTANTS
  Channels,              \* the Channel objects of the loop's life
  Fds,                   \* descriptors: reused once closed
  Null,                  \* the null pointer
  kInitEventsListSize,   \* the first size of events_ (16 in the code)
  MaxListSize            \* bound: events_ is explored up to this size

ASSUME SizeAssumption == kInitEventsListSize \in Nat \ {0}
ASSUME NullAssumption == Null \notin Channels \cup Fds

kNew == -1
kAdd == 1
kDelete == 2

VARIABLES
  phase,             \* "poll", "dispatch" or "functors", as in loop()
  fd,                \* each channel's fd_, Null when it is not alive
  events,            \* each channel's events_
  index,             \* each channel's index_
  channels_,         \* the map from descriptors, Null where it has no entry
  interest,          \* the kernel's list: descriptor -> pointer and mask
  events_,           \* the array epoll_wait fills: pointer and mask
  activateChannels,  \* activateChannels_ not yet dispatched
  reported,          \* history: the entries of the batch being dispatched
  stopped            \* "no", or what ended the process

vars == <<phase, fd, events, index, channels_, interest, events_,
          activateChannels, reported, stopped>>

Entry(ptr, mask) == [ptr |-> ptr, mask |-> mask]
NoEntry == Entry(Null, kNoneEvent)

Alive == {c \in Channels : fd[c] # Null}

Init ==
  /\ phase = "functors"
  /\ fd = [c \in Channels |-> Null]
  /\ events = [c \in Channels |-> kNoneEvent]
  /\ index = [c \in Channels |-> kNew]
  /\ channels_ = [d \in Fds |-> Null]
  /\ interest = [d \in Fds |-> NoEntry]
  /\ events_ = [i \in 1 .. kInitEventsListSize |-> NoEntry]
  /\ activateChannels = <<>>
  /\ reported = {}
  /\ stopped = "no"

-----------------------------------------------------------------------------
(* EpollPoller::update: the epoll_ctl.  A failing ADD or MOD is LOG_FATAL,  *)
(* which exits; a failing DEL is only logged.                               *)
Ctl(op, c, mask) ==
  LET known == interest[fd[c]] # NoEntry IN
  \/ /\ op = "DEL"
     /\ interest' = [interest EXCEPT ![fd[c]] = NoEntry]
     /\ UNCHANGED stopped
  \/ /\ op = IF known THEN "MOD" ELSE "ADD"
     /\ interest' = [interest EXCEPT ![fd[c]] = Entry(c, mask)]
     /\ UNCHANGED stopped
  \/ /\ op = IF known THEN "ADD" ELSE "MOD"
     /\ stopped' = "epoll_ctl"
     /\ UNCHANGED interest

IndexAfterDelete_Unchanged == kAdd

(* What updateChannel leaves in index_ after EPOLL_CTL_DEL.                 *)
IndexAfterDelete == kDelete

(* EpollPoller::updateChannel, for a channel whose mask is now "mask".      *)
UpdateChannel(c, mask) ==
  /\ events' = [events EXCEPT ![c] = mask]
  /\ \/ /\ index[c] \in {kNew, kDelete}
        /\ channels_' = IF index[c] = kNew
                        THEN [channels_ EXCEPT ![fd[c]] = c] ELSE channels_
        /\ index' = [index EXCEPT ![c] = kAdd]
        /\ Ctl("ADD", c, mask)
     \/ /\ index[c] \notin {kNew, kDelete}
        /\ IsNoneEvent(mask)
        /\ Ctl("DEL", c, mask)
        /\ index' = [index EXCEPT ![c] = IndexAfterDelete]
        /\ UNCHANGED channels_
     \/ /\ index[c] \notin {kNew, kDelete}
        /\ ~IsNoneEvent(mask)
        /\ Ctl("MOD", c, mask)
        /\ UNCHANGED <<index, channels_>>

IndexAfterRemove_Unchanged(c) == index[c]

(* What removeChannel leaves in index_.                                     *)
IndexAfterRemove(c) == kNew

-----------------------------------------------------------------------------
(* What callbacks and functors do with channels.                            *)

Running == stopped = "no" /\ phase \in {"dispatch", "functors"}

InitialIndex_Zero == 0

(* The index_ the constructor of Channel writes out: it has to be kNew.     *)
InitialIndex == -1

(* A channel is constructed for a descriptor just opened.                   *)
Construct(c, d) ==
  /\ Running
  /\ c \notin Alive
  /\ \A b \in Alive : fd[b] # d
  /\ fd' = [fd EXCEPT ![c] = d]
  /\ events' = [events EXCEPT ![c] = kNoneEvent]
  /\ index' = [index EXCEPT ![c] = InitialIndex]
  /\ UNCHANGED <<phase, channels_, interest, events_, activateChannels,
                 reported, stopped>>

(* enableReading, disableReading, enableWriting, disableWriting,            *)
(* disableAll: the new mask, then Channel::update.                          *)
Update(c) ==
  /\ Running
  /\ c \in Alive
  /\ \E mask \in {EnableReading(events[c]), DisableReading(events[c]),
                  EnableWriting(events[c]), DisableWriting(events[c]),
                  kNoneEvent} : UpdateChannel(c, mask)
  /\ UNCHANGED <<phase, fd, events_, activateChannels, reported>>

(* EpollPoller::removeChannel.                                              *)
RemoveChannel(c) ==
  /\ Running
  /\ c \in Alive
  /\ channels_' = [channels_ EXCEPT ![fd[c]] = Null]
  /\ IF index[c] = kAdd THEN Ctl("DEL", c, kNoneEvent)
                        ELSE UNCHANGED <<interest, stopped>>
  /\ index' = [index EXCEPT ![c] = IndexAfterRemove(c)]
  /\ UNCHANGED <<phase, fd, events, events_, activateChannels, reported>>

MayDestroy_AtOnce == Running

(* A connection is destroyed at the end of conneectDestroyed, which         *)
(* TcpServer queues: never while a batch of events is being dispatched.     *)
(* ~Channel itself asks for nothing of the kind: this is TcpServer's use of *)
(* it, with the tie of handleEvent, and not a test of the code.             *)
MayDestroy == Running /\ phase = "functors"

(* Its channel goes, and ~Socket closes the descriptor, which the kernel    *)
(* then drops from the interest list by itself.                             *)
Destroy(c) ==
  /\ MayDestroy
  /\ c \in Alive
  /\ index[c] = kNew
  /\ fd' = [fd EXCEPT ![c] = Null]
  /\ events' = [events EXCEPT ![c] = kNoneEvent]
  /\ interest' = [interest EXCEPT ![fd[c]] = NoEntry]
  /\ UNCHANGED <<phase, index, channels_, events_, activateChannels,
                 reported, stopped>>

-----------------------------------------------------------------------------
(* EpollPoller::poll.                                                       *)

(* What the kernel can report of descriptor d: everything it was asked      *)
(* for, or a hangup, asked for or not.  Which callbacks follow is decided   *)
(* by Channel's Callbacks; here two masks are enough to tell an entry from  *)
(* an older one.                                                            *)
Reports(d) ==
  IF interest[d] = NoEntry THEN {}
  ELSE {Entry(interest[d].ptr, mask) :
          mask \in {interest[d].mask, {"EPOLLHUP"}} \ {{}}}

Resized_Never(list) == list
Resized(list) == list \o [i \in 1 .. Len(list) |-> NoEntry]

(* epoll_wait fills the first numEvents slots, and the rest keep what they  *)
(* had; fillActivateChannels goes through every slot all the same.  A null  *)
(* pointer in one of them ends the process.                                 *)
PollEvents(n, ready) ==
  LET filled == [i \in 1 .. Len(events_) |->
                   IF i <= n THEN ready[i] ELSE events_[i]]
  IN  /\ \A i, j \in 1 .. n : i # j => ready[i].ptr # ready[j].ptr
      /\ reported' = {ready[i] : i \in 1 .. n}
      /\ IF \E i \in DOMAIN filled : filled[i].ptr = Null
         THEN /\ stopped' = "null_channel"
              /\ UNCHANGED <<phase, events_, activateChannels>>
         ELSE /\ activateChannels' = filled
              /\ events_' = IF n = Len(events_) THEN Resized(filled) ELSE filled
              /\ phase' = "dispatch"
              /\ UNCHANGED stopped
      /\ UNCHANGED <<fd, events, index, channels_, interest>>

Reportable == UNION {Reports(d) : d \in Fds}

Poll ==
  /\ stopped = "no"
  /\ phase = "poll"
  /\ \E n \in 1 .. Len(events_) : \E ready \in [1 .. n -> Reportable] :
       PollEvents(n, ready)

(* A timeout or a signal: activateChannels_ stays as loop() cleared it.     *)
PollNothing ==
  /\ stopped = "no"
  /\ phase = "poll"
  /\ phase' = "dispatch"
  /\ reported' = {}
  /\ UNCHANGED <<fd, events, index, channels_, interest, events_,
                 activateChannels, stopped>>

(* The loop's for: the next channel's handleEvent, its callbacks being the  *)
(* actions above.                                                           *)
HandleEvent ==
  /\ Running
  /\ phase = "dispatch"
  /\ activateChannels # <<>>
  /\ activateChannels' = Tail(activateChannels)
  /\ UNCHANGED <<phase, fd, events, index, channels_, interest, events_,
                 reported, stopped>>

NextPhase ==
  /\ Running
  /\ activateChannels = <<>>
  /\ phase' = IF phase = "dispatch" THEN "functors" ELSE "poll"
  /\ reported' = {}
  /\ UNCHANGED <<fd, events, index, channels_, interest, events_,
                 activateChannels, stopped>>

Next ==
  \/ \E c \in Channels, d \in Fds : Construct(c, d)
  \/ \E c \in Channels : Update(c) \/ RemoveChannel(c) \/ Destroy(c)
  \/ Poll
  \/ PollNothing
  \/ HandleEvent
  \/ NextPhase

Spec == Init /\ [][Next]_vars

(* Bound: how far events_ grows.                                            *)
ListBound == Len(events_) <= MaxListSize

-----------------------------------------------------------------------------
(* Properties.                                                              *)

TypeOK ==
  /\ phase \in {"poll", "dispatch", "functors"}
  /\ fd \in [Channels -> Fds \cup {Null}]
  /\ events \in [Channels -> SUBSET EpollBits]
  /\ index \in [Channels -> {kNew, kAdd, kDelete}]
  /\ channels_ \in [Fds -> Channels \cup {Null}]
  /\ \A d \in Fds : interest[d].ptr \in Channels \cup {Null}
  /\ \A i \in DOMAIN events_ : events_[i].ptr \in Channels \cup {Null}
  /\ \A i \in DOMAIN activateChannels : activateChannels[i].ptr \in Channels
  /\ stopped \in {"no", "epoll_ctl", "null_channel"}

(* The three books agree: a channel is in the kernel's list, under its own  *)
(* mask, exactly when its index_ is kAdd, and in channels_ exactly when it  *)
(* is not kNew; no list has an entry of anybody else, also when descriptors *)
(* are reused (EpollPoller.cpp:56-87).                                      *)
BooksAgree ==
  /\ \A c \in Alive :
       /\ (index[c] = kAdd) <=> (interest[fd[c]] = Entry(c, events[c]))
       /\ (index[c] # kNew) <=> (channels_[fd[c]] = c)
  /\ \A d \in Fds : (\A c \in Alive : fd[c] # d) => channels_[d] = Null

(* epoll_ctl never fails in the way that exits the process: no ADD of a     *)
(* descriptor already there, no MOD of one that is not                      *)
(* (EpollPoller.cpp:106-112), whatever order the loop's code enables,       *)
(* disables, removes and registers again.                                   *)
CtlNeverFatal == stopped # "epoll_ctl"

(* handleEvent is only ever called on channels still alive: none is         *)
(* destroyed while a batch that names it is dispatched                      *)
(* (TcpServer.cpp:97, EventLoop.cpp:66-70).                                 *)
BatchIsAlive ==
  \A i \in DOMAIN activateChannels : activateChannels[i].ptr \in Alive

(* A poll that survives hands out exactly what the kernel reported, with no *)
(* entry left over from an earlier poll: it survives only when every slot   *)
(* of events_ was filled, because resizing adds null slots                  *)
(* (EpollPoller.cpp:41-45, 90-96).                                          *)
SurvivingPollIsExact ==
  [][phase = "poll" /\ phase' = "dispatch"
       => Range(activateChannels') = reported']_vars

(* fillActivateChannels "fills in the active connections"                   *)
(* (EpollPoller.h:27), not the unused slots of events_ with their null      *)
(* pointers.  The first poll that reports fewer events than events_ has     *)
(* slots refutes it.                                                        *)
OnlyActiveFilled == stopped # "null_channel"
=============================================================================
