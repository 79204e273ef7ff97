------------------------- MODULE EpollPollerProofs -------------------------
(***************************************************************************)
(* Theorems about EpollPoller, for any channels, descriptors, masks and    *)
(* first size of events_.                                                  *)
(***************************************************************************)
EXTENDS EpollPoller, SequenceTheorems, TLAPS

Entries == [ptr : Channels \cup {Null}, mask : SUBSET (EpollBits \cup Unasked)]

(* The types of the books.                                                  *)
BooksTyped ==
  /\ fd \in [Channels -> Fds \cup {Null}]
  /\ events \in [Channels -> SUBSET EpollBits]
  /\ index \in [Channels -> {kNew, kAdd, kDelete}]
  /\ channels_ \in [Fds -> Channels \cup {Null}]
  /\ interest \in [Fds -> Entries]

(* No two channels alive share a descriptor.                                *)
OwnDescriptor == \A b, c \in Alive : fd[b] = fd[c] => b = c

(* index_ alone tells what the other two books say of a channel ...         *)
IndexTells ==
  \A c \in Alive :
    /\ interest[fd[c]] = IF index[c] = kAdd THEN Entry(c, events[c]) ELSE NoEntry
    /\ channels_[fd[c]] = IF index[c] = kNew THEN Null ELSE c

(* ... and they say nothing of a descriptor without a channel: what a later *)
(* channel on it starts from.                                               *)
FreeIsBlank ==
  \A d \in Fds : (\A c \in Alive : fd[c] # d) =>
                   interest[d] = NoEntry /\ channels_[d] = Null

BooksInv ==
  /\ BooksTyped /\ OwnDescriptor /\ IndexTells /\ FreeIsBlank
  /\ CtlNeverFatal

(* The array always ends in a null slot: a poll survives only if it filled  *)
(* the last one, and then the resize adds more.                             *)
LastSlotNull == events_[Len(events_)] = NoEntry

ListInv ==
  /\ phase \in {"poll", "dispatch", "functors"}
  /\ events_ \in Seq(Entries) /\ events_ # <<>> /\ LastSlotNull
  /\ activateChannels \in Seq(Entries)
  /\ phase # "dispatch" => activateChannels = <<>>
  /\ BatchIsAlive
  /\ stopped \in {"no", "epoll_ctl", "null_channel"}

bookVars == <<fd, events, index, channels_, interest>>
listVars == <<phase, events_, activateChannels>>

-----------------------------------------------------------------------------
(* The entry of a channel is never mistaken for an empty one.               *)
LEMMA EntryFacts ==
  /\ NoEntry \in Entries
  /\ \A c \in Channels, mask \in SUBSET EpollBits :
       /\ Entry(c, mask) \in Entries
       /\ Entry(c, mask) # NoEntry
       /\ Entry(c, mask).ptr = c
<1>1. \A c \in Channels, mask \in SUBSET EpollBits :
        /\ Entry(c, mask) \in Entries
        /\ Entry(c, mask).ptr = c
  BY DEF Entry, Entries
<1>2. NoEntry \in Entries /\ NoEntry.ptr = Null
  BY DEF Entry, NoEntry, Entries, kNoneEvent
<1>3. \A c \in Channels : c # Null
  BY NullAssumption
<1> QED BY <1>1, <1>2, <1>3

(* A channel alive is on a descriptor.                                      *)
LEMMA AliveOnFd ==
  ASSUME BooksTyped, NEW c \in Alive
  PROVE  c \in Channels /\ fd[c] \in Fds
BY DEF BooksTyped, Alive

(* The masks a channel can be given.                                        *)
LEMMA MasksTyped ==
  ASSUME NEW mask \in SUBSET EpollBits
  PROVE  {EnableReading(mask), DisableReading(mask), EnableWriting(mask),
          DisableWriting(mask), kNoneEvent} \subseteq SUBSET EpollBits
BY MaskAssumption DEF EnableReading, DisableReading, EnableWriting,
   DisableWriting, kNoneEvent

(* The three values of Channel::index_ differ.                              *)
LEMMA IndexValues == kNew # kAdd /\ kNew # kDelete /\ kAdd # kDelete
BY DEF kNew, kAdd, kDelete

-----------------------------------------------------------------------------
(* Nothing is registered before the first channel.                          *)
LEMMA BooksInitially == Init => BooksInv
<1> SUFFICES ASSUME Init PROVE BooksInv
  OBVIOUS
<1>1. BooksTyped
  BY EntryFacts DEF Init, BooksTyped, kNoneEvent
<1>2. Alive = {}
  BY DEF Init, Alive
<1>3. FreeIsBlank
  BY DEF Init, FreeIsBlank
<1>4. CtlNeverFatal
  BY DEF Init, CtlNeverFatal
<1> QED BY <1>1, <1>2, <1>3, <1>4 DEF BooksInv, OwnDescriptor, IndexTells

(* A channel alive changes its own rows of the books, consistently.         *)
LEMMA RowKeepsBooks ==
  ASSUME BooksInv, NEW c \in Alive,
         NEW mask \in SUBSET EpollBits, NEW i \in {kNew, kAdd, kDelete},
         events' = [events EXCEPT ![c] = mask],
         index' = [index EXCEPT ![c] = i],
         interest' = [interest EXCEPT ![fd[c]] =
                        IF i = kAdd THEN Entry(c, mask) ELSE NoEntry],
         channels_' = [channels_ EXCEPT ![fd[c]] = IF i = kNew THEN Null ELSE c],
         UNCHANGED fd, CtlNeverFatal'
  PROVE  BooksInv'
<1> USE DEF BooksInv
<1>1. c \in Channels /\ fd[c] \in Fds /\ Alive' = Alive
  BY AliveOnFd DEF Alive
<1>2. BooksTyped'
  BY <1>1, EntryFacts DEF BooksTyped
<1>3. OwnDescriptor'
  BY <1>1 DEF OwnDescriptor
<1>4. ASSUME NEW b \in Alive
      PROVE  /\ interest'[fd[b]] = IF index'[b] = kAdd THEN Entry(b, events'[b])
                                   ELSE NoEntry
             /\ channels_'[fd[b]] = IF index'[b] = kNew THEN Null ELSE b
  <2>1. b \in Channels /\ fd[b] \in Fds
    BY AliveOnFd
  <2>2. CASE b = c
    BY <1>1, <2>2 DEF BooksTyped
  <2>3. CASE b # c
    <3>1. fd[b] # fd[c]
      BY <2>3 DEF OwnDescriptor
    <3> QED BY <1>1, <2>1, <2>3, <3>1 DEF BooksTyped, IndexTells
  <2> QED BY <2>2, <2>3
<1>5. IndexTells'
  BY <1>1, <1>4 DEF IndexTells
<1>6. FreeIsBlank'
  BY <1>1 DEF FreeIsBlank, BooksTyped
<1> QED BY <1>2, <1>3, <1>5, <1>6

(* Channel::update, whatever mask the channel has come to.                  *)
LEMMA UpdateKeepsBooks ==
  ASSUME BooksInv, NEW c \in Channels, Update(c)
  PROVE  BooksInv' /\ stopped' = stopped
<1>1. c \in Alive /\ fd[c] \in Fds
  BY AliveOnFd DEF Update, BooksInv
<1>2. PICK mask \in SUBSET EpollBits : UpdateChannel(c, mask)
  <2>1. events[c] \in SUBSET EpollBits
    BY DEF BooksInv, BooksTyped
  <2> QED BY <2>1, MasksTyped DEF Update
<1>3. /\ interest[fd[c]] = IF index[c] = kAdd THEN Entry(c, events[c]) ELSE NoEntry
      /\ channels_[fd[c]] = IF index[c] = kNew THEN Null ELSE c
      /\ index[c] \in {kNew, kAdd, kDelete}
      /\ interest[fd[c]] # NoEntry <=> index[c] = kAdd
  BY <1>1, EntryFacts DEF BooksInv, BooksTyped, IndexTells
<1>4. /\ events' = [events EXCEPT ![c] = mask] /\ UNCHANGED fd
      /\ stopped = "no" /\ CtlNeverFatal
  BY <1>2 DEF Update, UpdateChannel, Running, CtlNeverFatal
<1>5. CASE index[c] \in {kNew, kDelete}
  <2>1. /\ channels_' = IF index[c] = kNew
                        THEN [channels_ EXCEPT ![fd[c]] = c] ELSE channels_
        /\ index' = [index EXCEPT ![c] = kAdd]
        /\ Ctl("ADD", c, mask)
    BY <1>2, <1>5 DEF UpdateChannel
  <2>2. interest' = [interest EXCEPT ![fd[c]] = Entry(c, mask)] /\ UNCHANGED stopped
    BY <1>3, <1>5, <2>1, IndexValues DEF Ctl
  <2>3. channels_' = [channels_ EXCEPT ![fd[c]] = c]
    BY <1>1, <1>3, <1>5, <2>1, IndexValues DEF BooksInv, BooksTyped
  <2> QED BY <1>1, <1>4, <2>1, <2>2, <2>3, IndexValues, RowKeepsBooks DEF CtlNeverFatal
<1>6. CASE index[c] = kAdd /\ IsNoneEvent(mask)
  <2>1. /\ UNCHANGED channels_
        /\ index' = [index EXCEPT ![c] = kDelete]
        /\ Ctl("DEL", c, mask)
    BY <1>2, <1>6, IndexValues DEF UpdateChannel, IndexAfterDelete
  <2>2. interest' = [interest EXCEPT ![fd[c]] = NoEntry] /\ UNCHANGED stopped
    BY <2>1 DEF Ctl
  <2>3. channels_' = [channels_ EXCEPT ![fd[c]] = c]
    BY <1>1, <1>3, <1>6, <2>1, IndexValues DEF BooksInv, BooksTyped
  <2> QED BY <1>1, <1>4, <2>1, <2>2, <2>3, IndexValues, RowKeepsBooks DEF CtlNeverFatal
<1>7. CASE index[c] = kAdd /\ ~IsNoneEvent(mask)
  <2>1. UNCHANGED <<channels_, index>> /\ Ctl("MOD", c, mask)
    BY <1>2, <1>7, IndexValues DEF UpdateChannel
  <2>2. interest' = [interest EXCEPT ![fd[c]] = Entry(c, mask)] /\ UNCHANGED stopped
    BY <1>3, <1>7, <2>1 DEF Ctl
  <2>3. /\ channels_' = [channels_ EXCEPT ![fd[c]] = c]
        /\ index' = [index EXCEPT ![c] = kAdd]
    BY <1>1, <1>3, <1>7, <2>1, IndexValues DEF BooksInv, BooksTyped
  <2> QED BY <1>1, <1>4, <2>2, <2>3, IndexValues, RowKeepsBooks DEF CtlNeverFatal
<1> QED BY <1>3, <1>5, <1>6, <1>7

(* removeChannel takes a channel out of the map and out of the kernel       *)
(* together, whatever its index was (EpollPoller.cpp:71-87).                *)
LEMMA RemoveKeepsBooks ==
  ASSUME BooksInv, NEW c \in Channels, RemoveChannel(c)
  PROVE  BooksInv' /\ stopped' = stopped
<1>1. c \in Alive /\ fd[c] \in Fds
  BY AliveOnFd DEF RemoveChannel, BooksInv
<1>2. /\ interest[fd[c]] = IF index[c] = kAdd THEN Entry(c, events[c]) ELSE NoEntry
      /\ events[c] \in SUBSET EpollBits
  BY <1>1 DEF BooksInv, BooksTyped, IndexTells
<1>3. /\ channels_' = [channels_ EXCEPT ![fd[c]] = Null]
      /\ index' = [index EXCEPT ![c] = kNew]
      /\ UNCHANGED <<fd, events>>
  BY DEF RemoveChannel, IndexAfterRemove
<1>4. interest' = [interest EXCEPT ![fd[c]] = NoEntry] /\ UNCHANGED stopped
  <2>1. CASE index[c] = kAdd
    BY <2>1 DEF RemoveChannel, Ctl
  <2>2. CASE index[c] # kAdd
    BY <1>1, <1>2, <2>2 DEF RemoveChannel, BooksInv, BooksTyped
  <2> QED BY <2>1, <2>2
<1>5. events' = [events EXCEPT ![c] = events[c]]
  BY <1>3 DEF BooksInv, BooksTyped
<1>6. CtlNeverFatal'
  BY <1>4 DEF BooksInv, CtlNeverFatal
<1> QED BY <1>1, <1>2, <1>3, <1>4, <1>5, <1>6, IndexValues, RowKeepsBooks

(* A channel on a fresh descriptor finds blank rows, as its index_ says.    *)
LEMMA ConstructKeepsBooks ==
  ASSUME BooksInv, NEW c \in Channels, NEW d \in Fds, Construct(c, d)
  PROVE  BooksInv'
<1> USE DEF BooksInv
<1>1. /\ fd' = [fd EXCEPT ![c] = d]
      /\ events' = [events EXCEPT ![c] = kNoneEvent]
      /\ index' = [index EXCEPT ![c] = kNew]
      /\ UNCHANGED <<channels_, interest, stopped>>
      /\ c \notin Alive /\ \A b \in Alive : fd[b] # d
  BY DEF Construct, InitialIndex, kNew
<1>2. d # Null
  BY NullAssumption
<1>3. BooksTyped'
  BY <1>1 DEF BooksTyped, kNoneEvent
<1>4. Alive' = Alive \cup {c}
  BY <1>1, <1>2 DEF Alive, BooksTyped
<1>5. \A b \in Alive : fd'[b] = fd[b] /\ events'[b] = events[b] /\ index'[b] = index[b]
  BY <1>1 DEF BooksTyped, Alive
<1>6. fd'[c] = d /\ index'[c] = kNew
  BY <1>1 DEF BooksTyped
<1>7. OwnDescriptor'
  BY <1>1, <1>4, <1>5, <1>6 DEF OwnDescriptor
<1>8. interest[d] = NoEntry /\ channels_[d] = Null
  BY <1>1 DEF FreeIsBlank
<1>9. IndexTells'
  BY <1>1, <1>4, <1>5, <1>6, <1>8, IndexValues DEF IndexTells
<1>10. FreeIsBlank'
  BY <1>1, <1>4, <1>5 DEF FreeIsBlank
<1>11. CtlNeverFatal'
  BY <1>1 DEF CtlNeverFatal
<1> QED BY <1>3, <1>7, <1>9, <1>10, <1>11

(* A channel is destroyed after it was removed, which blanked its rows.     *)
LEMMA DestroyKeepsBooks ==
  ASSUME BooksInv, NEW c \in Channels, Destroy(c)
  PROVE  BooksInv'
<1> USE DEF BooksInv
<1>1. /\ fd' = [fd EXCEPT ![c] = Null]
      /\ events' = [events EXCEPT ![c] = kNoneEvent]
      /\ interest' = [interest EXCEPT ![fd[c]] = NoEntry]
      /\ UNCHANGED <<channels_, index, stopped>>
      /\ c \in Alive /\ index[c] = kNew
  BY DEF Destroy
<1>2. fd[c] \in Fds
  BY <1>1, AliveOnFd
<1>3. BooksTyped'
  BY <1>1, EntryFacts DEF BooksTyped, kNoneEvent
<1>4. Alive' = Alive \ {c}
  BY <1>1 DEF Alive, BooksTyped
<1>5. \A b \in Alive' : fd'[b] = fd[b] /\ events'[b] = events[b] /\ fd[b] # fd[c]
  BY <1>1, <1>4 DEF BooksTyped, Alive, OwnDescriptor
<1>6. OwnDescriptor'
  BY <1>4, <1>5 DEF OwnDescriptor
<1>7. IndexTells'
  BY <1>1, <1>4, <1>5, AliveOnFd DEF IndexTells, BooksTyped
<1>8. channels_[fd[c]] = Null
  BY <1>1 DEF IndexTells
<1>9. FreeIsBlank'
  <2> SUFFICES ASSUME NEW d \in Fds, \A b \in Alive' : fd'[b] # d
               PROVE  interest'[d] = NoEntry /\ channels_'[d] = Null
    BY DEF FreeIsBlank
  <2>1. CASE d = fd[c]
    BY <1>1, <1>8, <2>1 DEF BooksTyped
  <2>2. CASE d # fd[c]
    <3>1. \A b \in Alive : fd[b] # d
      BY <1>4, <1>5, <2>2
    <3> QED BY <1>1, <2>2, <3>1 DEF FreeIsBlank, BooksTyped
  <2> QED BY <2>1, <2>2
<1>10. CtlNeverFatal'
  BY <1>1 DEF CtlNeverFatal
<1> QED BY <1>3, <1>6, <1>7, <1>9, <1>10

-----------------------------------------------------------------------------
(* The list of events and the batch made of it.                             *)

LEMMA ListInitially == Init => ListInv
<1> SUFFICES ASSUME Init PROVE ListInv
  OBVIOUS
<1>1. kInitEventsListSize \in Nat /\ kInitEventsListSize > 0
  BY SizeAssumption
<1>2. events_ = [i \in 1 .. kInitEventsListSize |-> NoEntry]
  BY DEF Init
<1>3. events_ \in Seq(Entries) /\ Len(events_) = kInitEventsListSize
  BY <1>1, <1>2, EntryFacts
<1>4. LastSlotNull /\ events_ # <<>>
  BY <1>1, <1>2, <1>3 DEF LastSlotNull
<1>5. phase = "functors" /\ activateChannels = <<>> /\ stopped = "no"
  BY DEF Init
<1> QED BY <1>3, <1>4, <1>5 DEF ListInv, BatchIsAlive

(* What epoll_wait can report is the entry of a channel alive.              *)
LEMMA ReportsAlive ==
  ASSUME BooksInv, NEW e \in Reportable
  PROVE  e \in Entries /\ e.ptr \in Alive
<1> USE DEF BooksInv
<1>1. PICK d \in Fds : e \in Reports(d)
  BY DEF Reportable
<1>2. PICK c \in Alive : fd[c] = d
  BY <1>1 DEF FreeIsBlank, Reports
<1>3. interest[d] = Entry(c, events[c]) /\ c \in Channels
  BY <1>1, <1>2, AliveOnFd DEF IndexTells, Reports
<1>4. PICK mask \in {interest[d].mask, {"EPOLLHUP"}} : e = Entry(interest[d].ptr, mask)
  BY <1>1 DEF Reports
<1>5. events[c] \in SUBSET EpollBits
  BY <1>3 DEF BooksTyped
<1>6. interest[d].ptr = c /\ interest[d].mask = events[c]
  BY <1>3 DEF Entry
<1> QED BY <1>2, <1>3, <1>4, <1>5, <1>6 DEF Entry, Entries, Unasked

Filled(n, ready) ==
  [i \in 1 .. Len(events_) |-> IF i <= n THEN ready[i] ELSE events_[i]]

(* A poll that survives has filled the array to its end: its batch is what  *)
(* was reported and nothing else.                                           *)
LEMMA SurvivorIsFull ==
  ASSUME ListInv, BooksInv, NEW n \in 1 .. Len(events_),
         NEW ready \in [1 .. n -> Reportable], PollEvents(n, ready),
         stopped' = stopped, stopped = "no"
  PROVE  /\ n = Len(events_) /\ activateChannels' = ready
         /\ events_' = Resized(ready) /\ phase' = "dispatch"
         /\ ready \in Seq(Entries) /\ Len(ready) = n
<1>1. /\ ~ \E i \in DOMAIN Filled(n, ready) : Filled(n, ready)[i].ptr = Null
      /\ activateChannels' = Filled(n, ready)
      /\ events_' = IF n = Len(events_) THEN Resized(Filled(n, ready))
                    ELSE Filled(n, ready)
      /\ phase' = "dispatch"
  BY DEF PollEvents, Filled
<1>2. Len(events_) \in Nat /\ n \in Nat
  BY DEF ListInv
<1>3. NoEntry.ptr = Null
  BY DEF NoEntry, Entry
<1>4. n = Len(events_)
  <2> SUFFICES ASSUME n < Len(events_) PROVE FALSE
    BY <1>2
  <2>1. /\ Len(events_) \in DOMAIN Filled(n, ready)
        /\ Filled(n, ready)[Len(events_)] = events_[Len(events_)]
    BY <1>2 DEF Filled
  <2> QED BY <1>1, <1>3, <2>1 DEF ListInv, LastSlotNull
<1>5. ready = Filled(n, ready)
  BY <1>2, <1>4 DEF Filled
<1>6. ready \in Seq(Entries) /\ Len(ready) = n
  BY <1>2, ReportsAlive
<1> QED BY <1>1, <1>4, <1>5, <1>6

(* A poll fills the list with what the kernel reported, or ends the process *)
(* on a null slot (EpollPoller.cpp:23-45).                                  *)
LEMMA PollKeepsList ==
  ASSUME ListInv, BooksInv, NEW n \in 1 .. Len(events_),
         NEW ready \in [1 .. n -> Reportable], PollEvents(n, ready),
         phase = "poll", stopped = "no"
  PROVE  ListInv'
<1>1. Alive' = Alive
  BY DEF PollEvents, Alive
<1>2. CASE stopped' = "null_channel"
  <2>1. UNCHANGED <<phase, events_, activateChannels>>
    BY <1>2 DEF PollEvents
  <2> QED BY <1>1, <1>2, <2>1 DEF ListInv, LastSlotNull, BatchIsAlive
<1>3. CASE stopped' = stopped
  <2>1. /\ activateChannels' = ready /\ events_' = Resized(ready)
        /\ phase' = "dispatch" /\ ready \in Seq(Entries) /\ Len(ready) = n
    BY <1>3, SurvivorIsFull
  <2>2. n \in Nat /\ n > 0
    BY DEF ListInv
  <2> DEFINE more == [i \in 1 .. Len(ready) |-> NoEntry]
  <2>3. more \in Seq(Entries) /\ Len(more) = n
    BY <2>1, <2>2, EntryFacts
  <2>4. /\ events_' \in Seq(Entries) /\ Len(events_') = n + n
        /\ events_'[n + n] = more[n]
    <3>1. events_' = ready \o more
      BY <2>1 DEF Resized
    <3> HIDE DEF more
    <3>2. /\ ready \o more \in Seq(Entries) /\ Len(ready \o more) = n + n
          /\ (ready \o more)[n + n] = more[(n + n) - n]
      BY <2>1, <2>2, <2>3, ConcatProperties, SMTT(60)
    <3>3. (n + n) - n = n
      BY <2>2
    <3> QED BY <3>1, <3>2, <3>3
  <2>5. LastSlotNull' /\ events_' # <<>>
    BY <2>1, <2>2, <2>4 DEF LastSlotNull
  <2>6. BatchIsAlive'
    BY <1>1, <2>1, <2>2, ReportsAlive DEF BatchIsAlive
  <2> QED BY <1>3, <2>1, <2>4, <2>5, <2>6 DEF ListInv
<1> QED BY <1>2, <1>3 DEF PollEvents

(* What is done to channels does not touch the list, and a channel is       *)
(* destroyed only when there is no batch.                                   *)
LEMMA ChannelStepKeepsList ==
  ASSUME ListInv, UNCHANGED listVars, stopped' = stopped,
         Alive \subseteq Alive' \/ phase = "functors"
  PROVE  ListInv'
<1>1. BatchIsAlive'
  BY DEF ListInv, BatchIsAlive, listVars
<1> QED BY <1>1 DEF ListInv, LastSlotNull, listVars

-----------------------------------------------------------------------------
PollerInv == BooksInv /\ ListInv

(* Every step of the loop keeps the books and the list.                     *)
LEMMA PollerStep == PollerInv /\ [Next]_vars => PollerInv'
<1> SUFFICES ASSUME BooksInv, ListInv, [Next]_vars PROVE BooksInv' /\ ListInv'
  BY DEF PollerInv
<1>0. ASSUME UNCHANGED bookVars, stopped' # "epoll_ctl" PROVE BooksInv'
  BY <1>0 DEF bookVars, BooksInv, BooksTyped, OwnDescriptor, IndexTells,
     FreeIsBlank, CtlNeverFatal, Alive
<1>1. CASE UNCHANGED vars
  BY <1>0, <1>1, ChannelStepKeepsList DEF vars, bookVars, listVars, BooksInv,
     CtlNeverFatal, Alive
<1>2. ASSUME NEW c \in Channels, NEW d \in Fds, Construct(c, d)
      PROVE  BooksInv' /\ ListInv'
  <2>1. UNCHANGED listVars /\ stopped' = stopped
    BY <1>2 DEF Construct, listVars
  <2>2. Alive \subseteq Alive'
    BY <1>2, NullAssumption DEF Construct, Alive, BooksInv, BooksTyped
  <2> QED BY <1>2, <2>1, <2>2, ConstructKeepsBooks, ChannelStepKeepsList
<1>3. ASSUME NEW c \in Channels, Update(c) PROVE BooksInv' /\ ListInv'
  <2>1. UNCHANGED listVars /\ Alive' = Alive
    BY <1>3 DEF Update, listVars, Alive
  <2> QED BY <1>3, <2>1, UpdateKeepsBooks, ChannelStepKeepsList
<1>4. ASSUME NEW c \in Channels, RemoveChannel(c) PROVE BooksInv' /\ ListInv'
  <2>1. UNCHANGED listVars /\ Alive' = Alive
    BY <1>4 DEF RemoveChannel, listVars, Alive
  <2> QED BY <1>4, <2>1, RemoveKeepsBooks, ChannelStepKeepsList
<1>5. ASSUME NEW c \in Channels, Destroy(c) PROVE BooksInv' /\ ListInv'
  <2>1. UNCHANGED listVars /\ phase = "functors" /\ stopped' = stopped
    BY <1>5 DEF Destroy, MayDestroy, listVars
  <2> QED BY <1>5, <2>1, DestroyKeepsBooks, ChannelStepKeepsList
<1>6. CASE Poll
  <2>0. PICK n \in 1 .. Len(events_) :
          \E ready \in [1 .. n -> Reportable] : PollEvents(n, ready)
    BY <1>6 DEF Poll
  <2>1. PICK ready \in [1 .. n -> Reportable] : PollEvents(n, ready)
    BY <2>0
  <2>2. stopped = "no" /\ phase = "poll"
    BY <1>6 DEF Poll
  <2>3. UNCHANGED bookVars /\ stopped' # "epoll_ctl"
    BY <2>1, <2>2 DEF PollEvents, bookVars
  <2> QED BY <1>0, <2>1, <2>2, <2>3, PollKeepsList
<1>7. CASE PollNothing
  <2>1. UNCHANGED bookVars /\ stopped' # "epoll_ctl" /\ Alive' = Alive
    BY <1>7 DEF PollNothing, bookVars, Alive
  <2>2. ListInv'
    BY <1>7, <2>1 DEF PollNothing, ListInv, LastSlotNull, BatchIsAlive
  <2> QED BY <1>0, <2>1, <2>2
<1>8. CASE HandleEvent
  <2>1. UNCHANGED bookVars /\ stopped' # "epoll_ctl" /\ Alive' = Alive
    BY <1>8 DEF HandleEvent, Running, bookVars, Alive
  <2>2. activateChannels' = Tail(activateChannels) /\ activateChannels # <<>>
        /\ phase = "dispatch" /\ UNCHANGED <<phase, events_, stopped>>
    BY <1>8 DEF HandleEvent
  <2>3. activateChannels' \in Seq(Entries) /\ BatchIsAlive'
    BY <2>1, <2>2 DEF ListInv, BatchIsAlive
  <2> QED BY <1>0, <2>1, <2>2, <2>3 DEF ListInv, LastSlotNull
<1>9. CASE NextPhase
  <2>1. UNCHANGED bookVars /\ stopped' # "epoll_ctl" /\ Alive' = Alive
    BY <1>9 DEF NextPhase, Running, bookVars, Alive
  <2>2. ListInv'
    BY <1>9, <2>1 DEF NextPhase, Running, ListInv, LastSlotNull, BatchIsAlive
  <2> QED BY <1>0, <2>1, <2>2
<1> QED
  BY <1>1, <1>2, <1>3, <1>4, <1>5, <1>6, <1>7, <1>8, <1>9 DEF Next

(* The inductive invariant holds in every reachable state.                  *)
LEMMA PollerInvariant == Spec => []PollerInv
<1>1. Init => PollerInv
  BY BooksInitially, ListInitially DEF PollerInv
<1> QED BY <1>1, PollerStep, PTL DEF Spec

-----------------------------------------------------------------------------
(* The three books agree, whatever order the loop's code constructs,        *)
(* enables, disables, removes and destroys in (EpollPoller.cpp:47-87).      *)
THEOREM BooksStayInStep == Spec => []BooksAgree
<1>1. BooksInv => BooksAgree
  <2> SUFFICES ASSUME BooksInv PROVE BooksAgree
    OBVIOUS
  <2>1. ASSUME NEW c \in Alive
        PROVE  /\ (index[c] = kAdd) <=> (interest[fd[c]] = Entry(c, events[c]))
               /\ (index[c] # kNew) <=> (channels_[fd[c]] = c)
    <3>1. /\ c \in Channels /\ c # Null /\ events[c] \in SUBSET EpollBits
          /\ Entry(c, events[c]) # NoEntry
      BY AliveOnFd, NullAssumption, EntryFacts DEF BooksInv, BooksTyped
    <3> QED BY <3>1 DEF BooksInv, IndexTells
  <2> QED BY <2>1 DEF BooksAgree, BooksInv, FreeIsBlank
<1> QED BY <1>1, PollerInvariant, PTL DEF PollerInv

(* No ADD of a descriptor the kernel has, no MOD of one it has not          *)
(* (EpollPoller.cpp:101-117).                                               *)
THEOREM CtlNeverExits == Spec => []CtlNeverFatal
<1>1. PollerInv => CtlNeverFatal
  BY DEF PollerInv, BooksInv
<1> QED BY <1>1, PollerInvariant, PTL

(* No channel is destroyed while a batch names it (EventLoop.cpp:61-72).    *)
THEOREM BatchStaysAlive == Spec => []BatchIsAlive
<1>1. PollerInv => BatchIsAlive
  BY DEF PollerInv, ListInv
<1> QED BY <1>1, PollerInvariant, PTL

(* The map, the interest set, the slots of events_ and the active list name *)
(* channels of their own types in every state (EpollPoller.cpp:23-87).      *)
THEOREM TypeCorrect == Spec => []TypeOK
<1>1. PollerInv => TypeOK
  <2> SUFFICES ASSUME BooksInv, ListInv PROVE TypeOK
    BY DEF PollerInv
  <2>1. \A d \in Fds : interest[d].ptr \in Channels \cup {Null}
    BY DEF BooksInv, BooksTyped, Entries
  <2>2. \A i \in DOMAIN events_ : events_[i].ptr \in Channels \cup {Null}
    <3>1. events_ \in Seq(Entries)
      BY DEF ListInv
    <3>2. \A i \in DOMAIN events_ : events_[i] \in Entries
      BY <3>1
    <3> QED BY <3>2 DEF Entries
  <2>3. \A i \in DOMAIN activateChannels : activateChannels[i].ptr \in Channels
    BY DEF ListInv, BatchIsAlive, Alive
  <2> QED BY <2>1, <2>2, <2>3 DEF TypeOK, BooksInv, BooksTyped, ListInv
<1> QED BY <1>1, PollerInvariant, PTL

(* A poll that survives hands out what the kernel reported and no slot left *)
(* from an earlier poll: survival means that every slot was filled          *)
(* (EpollPoller.cpp:33-45, 89-97).                                          *)
THEOREM SurvivorsAreExact == Spec => SurvivingPollIsExact
<1>1. PollerInv /\ [Next]_vars
        => [phase = "poll" /\ phase' = "dispatch"
              => Range(activateChannels') = reported']_vars
  <2> SUFFICES ASSUME BooksInv, ListInv, Next, phase = "poll", phase' = "dispatch"
               PROVE  Range(activateChannels') = reported'
    BY DEF PollerInv
  <2>1. CASE Poll
    <3>0. PICK n \in 1 .. Len(events_) :
            \E ready \in [1 .. n -> Reportable] : PollEvents(n, ready)
      BY <2>1 DEF Poll
    <3>1. PICK ready \in [1 .. n -> Reportable] : PollEvents(n, ready)
      BY <3>0
    <3>2. stopped = "no" /\ stopped' = stopped
      BY <2>1, <3>1 DEF Poll, PollEvents
    <3>3. activateChannels' = ready
      BY <3>1, <3>2, SurvivorIsFull
    <3>4. reported' = {ready[i] : i \in 1 .. n} /\ DOMAIN ready = 1 .. n
      BY <3>1 DEF PollEvents
    <3> QED BY <3>3, <3>4 DEF Range
  <2>2. CASE PollNothing
    <3>1. activateChannels' = <<>> /\ reported' = {}
      BY <2>2 DEF PollNothing, ListInv
    <3>2. DOMAIN activateChannels' = {}
      BY <3>1
    <3> QED BY <3>1, <3>2 DEF Range
  <2>3. CASE ~Poll /\ ~PollNothing
    <3>1. ASSUME Running PROVE FALSE
      BY <3>1 DEF Running
    <3> QED BY <2>3, <3>1 DEF Next, Construct, Update, RemoveChannel, Destroy,
       MayDestroy, HandleEvent, NextPhase
  <2> QED BY <2>1, <2>2, <2>3
<1> QED BY <1>1, PollerInvariant, PTL DEF Spec, SurvivingPollIsExact
=============================================================================
