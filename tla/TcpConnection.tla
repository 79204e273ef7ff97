--------------------------- MODULE TcpConnection ---------------------------
(***************************************************************************)
(* One TcpConnection (muduo/TcpConnection.cpp): its loop's thread, which   *)
(* dispatches the events of its channel and runs the functors queued for   *)
(* it, other threads that call send and shutdown, and the TcpServer that   *)
(* keeps it in connections_.                                               *)
(*                                                                         *)
(* The loop is taken at what module TaskQueue promises and EventLoop is    *)
(* proved to implement: functors run one at a time in the order queued.    *)
(* A handler runs as one step up to the user callback it makes; "work" is  *)
(* what the loop's thread has left to do before it polls again.            *)
(***************************************************************************)
EXTENDS Channel, Naturals, FiniteSets

CONSTANTS
  Callers,        \* threads other than the connection's loop
  Msgs,           \* the strings callers send, each at most once
  Size,           \* the length of a string, in units write may split
  HighWaterMark,  \* highWaterMark_, in the same units
  Uses            \* what the application does besides the ordinary:
                  \*   "threadsSend"      callers call send
                  \*   "threadsShutdown"  callers call shutdown
                  \*   "stringsDie"       a sent string dies when send returns
                  \*   "serverDestructs"  ~TcpServer runs while the loop does

ASSUME SizeAssumption == Size \in Nat \ {0} /\ HighWaterMark \in Nat \ {0}
ASSUME MsgAssumption == Msgs \cap {"out", "checked", "set"} = {}
ASSUME BitsAssumption == kWriteEvent # {} /\ kReadEvent \ kWriteEvent # {}

VARIABLES
  state,         \* state_
  events, added, \* the channel's events_, and whether index_ is kAdd
  outputBuffer,  \* the readable part of outputBuffer_
  pending,       \* functors of the loop concerning this connection, in order
  work,          \* the steps before the loop's thread polls again
  caller,        \* where each caller is
  server,        \* "holds" the connection, has "erased" it, or is "gone"
  removals,      \* removeConnectionInLoop functors queued at the main loop
  peer,          \* "open", or "closed" after FIN or RST
  writeShut,     \* shutdownWrite has been called
  alive,         \* the object has not been destroyed
  stopped,       \* "no", or what ended the process
  sent, freed,   \* history: strings passed to send; those already destroyed
  accepted,      \* history: units that sendInLoop took without error
  wire,          \* history: units written to the socket
  downs,         \* history: connection callbacks made for its end
  late           \* history: shutdown() has stored kDisconnecting over a
                 \* state other than the kConnected it had tested

vars == <<state, events, added, outputBuffer, pending, work, caller, server,
          removals, peer, writeShut, alive, stopped, sent, freed, accepted,
          wire, downs, late>>

channelVars == <<events, added>>
outVars == <<outputBuffer, writeShut, accepted, wire>>
serverVars == <<server, removals>>
envVars == <<peer, sent, freed, late>>

States == {"kConnecting", "kConnected", "kDisconnecting", "kDisconnected"}

Functor(kind) == [kind |-> kind, msg |-> "none"]
SendFunctor(m) == [kind |-> "send", msg |-> m]

(* The functors bound to a shared_ptr; the others are bound to this.        *)
Owning == {"conneectEstableished", "conneectDestroyed", "writeComplete",
           "highWaterMark"}

Junk == "junk"

(* What is found behind buf.data().                                         *)
Payload(m) == [i \in 1 .. Size |-> IF m \in freed THEN <<Junk, i>> ELSE <<m, i>>]

(* newConnection has put the connection in connections_ and queued          *)
(* conneectEstableished at its loop.                                        *)
Init ==
  /\ state = "kConnecting"
  /\ events = kNoneEvent
  /\ added = FALSE
  /\ outputBuffer = <<>>
  /\ pending = <<Functor("conneectEstableished")>>
  /\ work = <<>>
  /\ caller = [t \in Callers |-> "out"]
  /\ server = "holds"
  /\ removals = 0
  /\ peer = "open"
  /\ writeShut = FALSE
  /\ alive = TRUE
  /\ stopped = "no"
  /\ sent = {}
  /\ freed = {}
  /\ accepted = <<>>
  /\ wire = <<>>
  /\ downs = 0
  /\ late = FALSE

Running == stopped = "no"

-----------------------------------------------------------------------------
(* Pieces of the handlers.                                                  *)

Registered_Always(mask) == TRUE

(* updateChannel with the new mask: an empty mask deletes a registered      *)
(* channel, any mask registers one that is not.                             *)
Registered(mask) == added => ~IsNoneEvent(mask)

(* Channel::update after the mask was changed.                              *)
ChannelUpdate(mask) ==
  /\ events' = mask
  /\ added' = Registered(mask)

ShutsWrite_Always(mask) == TRUE

(* shutdownInLoop: close the write side unless output is still expected.    *)
ShutsWrite(mask) == ~IsWriting(mask)

(* A direct write takes n of len units, or none (EWOULDBLOCK); to a dead    *)
(* connection it fails for good (EPIPE, ECONNRESET).                        *)
WriteResults(len) ==
  (IF writeShut THEN {} ELSE {[n |-> n, fault |-> FALSE] : n \in 0 .. len})
  \cup (IF writeShut \/ peer = "closed" THEN {[n |-> 0, fault |-> TRUE]} ELSE {})

WritesDirectly == ~IsWriting(events) /\ outputBuffer = <<>>

Rest_FromStart(bytes, n) == bytes

(* What a write of n units leaves to be appended to outputBuffer_.          *)
Rest(bytes, n) == SubSeq(bytes, n + 1, Len(bytes))

(* Whether sendInLoop arms EPOLLOUT: output is left and it seems unarmed.   *)
Arms(rest) == rest # <<>> /\ ~IsWriting(events)

HighWater_MissesEqual(k) ==
  IF /\ Len(outputBuffer) < HighWaterMark
     /\ Len(outputBuffer) + k > HighWaterMark
  THEN <<Functor("highWaterMark")>> ELSE <<>>

(* The functor for the callback that is due when the buffer grows by k.     *)
HighWater(k) ==
  IF /\ Len(outputBuffer) < HighWaterMark
     /\ Len(outputBuffer) + k >= HighWaterMark
  THEN <<Functor("highWaterMark")>> ELSE <<>>

(* sendInLoop; "queue" is what is pending apart from what it adds.          *)
SendInLoop(bytes, queue) ==
  \/ /\ state = "kDisconnected"
     /\ pending' = queue
     /\ UNCHANGED <<channelVars, outVars>>
  \/ /\ state # "kDisconnected"
     /\ \E r \in IF WritesDirectly THEN WriteResults(Len(bytes))
                                   ELSE {[n |-> 0, fault |-> FALSE]} :
          LET rest == IF r.fault \/ r.n = Len(bytes) THEN <<>>
                      ELSE Rest(bytes, r.n)
              completed == r.n = Len(bytes)
          IN  /\ wire' = wire \o SubSeq(bytes, 1, r.n)
              /\ accepted' = IF r.fault THEN accepted ELSE accepted \o bytes
              /\ outputBuffer' = outputBuffer \o rest
              /\ pending' = queue \o HighWater(Len(rest))
                              \o (IF completed
                                  THEN <<Functor("writeComplete")>> ELSE <<>>)
              /\ IF Arms(rest) THEN ChannelUpdate(EnableWriting(events))
                               ELSE UNCHANGED channelVars
              /\ UNCHANGED writeShut

(* shutdownInLoop.                                                          *)
ShutdownInLoop ==
  /\ writeShut' = (writeShut \/ ShutsWrite(events))
  /\ UNCHANGED <<outputBuffer, accepted, wire>>

MaskAfterClose_Unchanged == events
MaskAfterClose == kNoneEvent

StateAfterClose_Unchanged == state
StateAfterClose == "kDisconnected"

AfterClose_NotGivenBack == <<"user">>

(* The two callbacks that end handleClose: the user's and the server's.     *)
AfterClose == <<"user", "closeCallback">>

(* handleClose, up to its two callbacks.                                    *)
HandleClose ==
  IF state \in {"kConnected", "kDisconnecting"}
  THEN /\ state' = StateAfterClose
       /\ ChannelUpdate(MaskAfterClose)
       /\ downs' = downs + 1
       /\ work' = AfterClose \o Tail(work)
       /\ UNCHANGED stopped
  ELSE /\ stopped' = "close_assertion"
       /\ UNCHANGED <<state, channelVars, downs, work>>

-----------------------------------------------------------------------------
(* The channel's events.                                                    *)

(* The loop's poll reported revents and handleEvent has locked tie_.        *)
HandleEvent(revents) ==
  /\ Running
  /\ work = <<>>
  /\ alive /\ added
  /\ revents # {}
  /\ revents \subseteq (events \ {"EPOLLPRI"})
                         \cup (IF peer = "closed" THEN Unasked ELSE {})
  /\ work' = Callbacks(revents)
  /\ UNCHANGED <<state, channelVars, pending, caller, alive, stopped, downs,
                 outVars, serverVars, envVars>>

Doing(step) ==
  /\ Running
  /\ work # <<>>
  /\ Head(work) = step

(* handleRead with data: the message callback is user code.                 *)
HandleReadData ==
  /\ Doing("read")
  /\ work' = <<"user">> \o Tail(work)
  /\ UNCHANGED <<state, channelVars, pending, caller, alive, stopped, downs,
                 outVars, serverVars, envVars>>

(* handleRead with an error calls handleError, which looks at SO_ERROR and  *)
(* changes nothing.                                                         *)
HandleError ==
  /\ Doing("read") \/ Doing("error")
  /\ work' = Tail(work)
  /\ UNCHANGED <<state, channelVars, pending, caller, alive, stopped, downs,
                 outVars, serverVars, envVars>>

(* Nothing left to read from a peer that closed, or a hangup.               *)
HandlePeerClose ==
  /\ Doing("read") \/ Doing("close")
  /\ peer = "closed"
  /\ HandleClose
  /\ UNCHANGED <<pending, caller, alive, outVars, serverVars, envVars>>

(* Whether handleWrite's last lines close the write side.                   *)
ShutsAfterDrain(mask) == state = "kDisconnecting" /\ ShutsWrite(mask)

(* handleWrite when the socket takes n > 0 units.                           *)
WriteSome ==
  /\ Doing("write")
  /\ IsWriting(events)
  /\ ~writeShut
  /\ \E n \in 1 .. Len(outputBuffer) :
       LET left == SubSeq(outputBuffer, n + 1, Len(outputBuffer))
           mask == DisableWriting(events)
       IN  /\ wire' = wire \o SubSeq(outputBuffer, 1, n)
           /\ outputBuffer' = left
           /\ IF left = <<>>
              THEN /\ ChannelUpdate(mask)
                   /\ pending' = Append(pending, Functor("writeComplete"))
                   /\ writeShut' = ShutsAfterDrain(mask)
              ELSE UNCHANGED <<channelVars, pending, writeShut>>
  /\ work' = Tail(work)
  /\ UNCHANGED <<state, caller, alive, stopped, downs, accepted, serverVars,
                 envVars>>

(* handleWrite when writing is off, or the write takes nothing.             *)
WriteNothing ==
  /\ Doing("write")
  /\ work' = Tail(work)
  /\ UNCHANGED <<state, channelVars, pending, caller, alive, stopped, downs,
                 outVars, serverVars, envVars>>

-----------------------------------------------------------------------------
(* User code on the loop's thread, in any of the callbacks.                 *)

(* send asserts kConnected; the caller has looked at connected().           *)
UserSend(m) ==
  /\ Doing("user")
  /\ state = "kConnected"
  /\ m \notin sent
  /\ sent' = sent \cup {m}
  /\ SendInLoop(Payload(m), pending)
  /\ UNCHANGED <<state, work, caller, alive, stopped, downs, serverVars,
                 peer, freed, late>>

UserShutdown ==
  /\ Doing("user")
  /\ state = "kConnected"
  /\ state' = "kDisconnecting"
  /\ ShutdownInLoop
  /\ UNCHANGED <<channelVars, pending, work, caller, alive, stopped, downs,
                 serverVars, envVars>>

UserReturn ==
  /\ Doing("user")
  /\ work' = Tail(work)
  /\ UNCHANGED <<state, channelVars, pending, caller, alive, stopped, downs,
                 outVars, serverVars, envVars>>

(* The last line of handleClose: TcpServer::removeConnection, through a     *)
(* raw pointer to the server, queues removeConnectionInLoop at its loop.    *)
CloseCallback ==
  /\ Doing("closeCallback")
  /\ work' = Tail(work)
  /\ IF server = "gone"
     THEN stopped' = "server_gone" /\ UNCHANGED removals
     ELSE removals' = removals + 1 /\ UNCHANGED stopped
  /\ UNCHANGED <<state, channelVars, pending, caller, alive, downs, outVars,
                 server, envVars>>

(* The last line of conneectDestroyed.                                      *)
Remove ==
  /\ Doing("remove")
  /\ work' = Tail(work)
  /\ added' = FALSE
  /\ UNCHANGED <<state, events, pending, caller, alive, stopped, downs,
                 outVars, serverVars, envVars>>

-----------------------------------------------------------------------------
(* The functors, run by doPendingFunctors.                                  *)

NextIs(kind) ==
  /\ Running
  /\ work = <<>>
  /\ pending # <<>>
  /\ Head(pending).kind = kind

Established ==
  /\ NextIs("conneectEstableished")
  /\ pending' = Tail(pending)
  /\ state' = "kConnected"
  /\ ChannelUpdate(EnableReading(events))
  /\ work' = <<"user">>
  /\ UNCHANGED <<caller, alive, stopped, downs, outVars, serverVars, envVars>>

EndsHere_Always == TRUE

(* The test of conneectDestroyed: handleClose has not been here before.     *)
EndsHere == state = "kConnected"

Destroyed ==
  /\ NextIs("conneectDestroyed")
  /\ pending' = Tail(pending)
  /\ IF EndsHere
     THEN /\ state' = "kDisconnected"
          /\ ChannelUpdate(kNoneEvent)
          /\ downs' = downs + 1
          /\ work' = <<"user", "remove">>
     ELSE /\ added' = FALSE
          /\ UNCHANGED <<state, events, downs, work>>
  /\ UNCHANGED <<caller, alive, stopped, outVars, serverVars, envVars>>

(* writeCompleteCallback_ and highWaterMarkCallback_.                       *)
UserFunctor ==
  /\ NextIs("writeComplete") \/ NextIs("highWaterMark")
  /\ pending' = Tail(pending)
  /\ work' = <<"user">>
  /\ UNCHANGED <<state, channelVars, caller, alive, stopped, downs, outVars,
                 serverVars, envVars>>

SendFunctorRuns ==
  /\ NextIs("send")
  /\ alive
  /\ SendInLoop(Payload(Head(pending).msg), Tail(pending))
  /\ UNCHANGED <<state, work, caller, alive, stopped, downs, serverVars,
                 envVars>>

ShutdownFunctorRuns ==
  /\ NextIs("shutdown")
  /\ alive
  /\ pending' = Tail(pending)
  /\ ShutdownInLoop
  /\ UNCHANGED <<state, channelVars, work, caller, alive, stopped, downs,
                 serverVars, envVars>>

(* Both are bound to this, which no longer is.                              *)
RunsOnDead ==
  /\ NextIs("send") \/ NextIs("shutdown")
  /\ ~alive
  /\ stopped' = "use_after_destroy"
  /\ UNCHANGED <<state, channelVars, pending, work, caller, alive, downs,
                 outVars, serverVars, envVars>>

-----------------------------------------------------------------------------
(* Other threads.                                                           *)

CallerGo(t, from, to) ==
  /\ Running
  /\ caller[t] = from
  /\ caller' = [caller EXCEPT ![t] = to]

(* send, past its assertion and on its way to runInLoop.                    *)
CallSend(t, m) ==
  /\ "threadsSend" \in Uses
  /\ CallerGo(t, "out", m)
  /\ alive
  /\ state = "kConnected"
  /\ m \notin sent
  /\ sent' = sent \cup {m}
  /\ UNCHANGED <<state, channelVars, pending, work, alive, stopped, downs,
                 outVars, serverVars, peer, freed, late>>

QueueSend(t) ==
  \E m \in Msgs :
    /\ CallerGo(t, m, "out")
    /\ pending' = Append(pending, SendFunctor(m))
    /\ freed' = IF "stringsDie" \in Uses THEN freed \cup {m} ELSE freed
    /\ UNCHANGED <<state, channelVars, work, alive, stopped, downs, outVars,
                   serverVars, peer, sent, late>>

(* shutdown reads state_, then writes it, then queues shutdownInLoop.       *)
CallShutdown(t) ==
  /\ "threadsShutdown" \in Uses
  /\ CallerGo(t, "out", "checked")
  /\ alive
  /\ state = "kConnected"
  /\ UNCHANGED <<state, channelVars, pending, work, alive, stopped, downs,
                 outVars, serverVars, envVars>>

SetDisconnecting(t) ==
  /\ CallerGo(t, "checked", "set")
  /\ state' = "kDisconnecting"
  /\ late' = (late \/ state # "kConnected")
  /\ UNCHANGED <<channelVars, pending, work, alive, stopped, downs, outVars,
                 serverVars, peer, sent, freed>>

QueueShutdown(t) ==
  /\ CallerGo(t, "set", "out")
  /\ pending' = Append(pending, Functor("shutdown"))
  /\ UNCHANGED <<state, channelVars, work, alive, stopped, downs, outVars,
                 serverVars, envVars>>

-----------------------------------------------------------------------------
(* The server, the peer, and the end of the object.                         *)

RemoveConnectionInLoop ==
  /\ Running
  /\ removals > 0
  /\ removals' = removals - 1
  /\ IF server = "gone"
     THEN stopped' = "server_gone" /\ UNCHANGED <<server, pending>>
     ELSE /\ server' = "erased"
          /\ pending' = Append(pending, Functor("conneectDestroyed"))
          /\ UNCHANGED stopped
  /\ UNCHANGED <<state, channelVars, work, caller, alive, downs, outVars,
                 envVars>>

(* ~TcpServer, on the main thread, of a connection on a loop of the pool.   *)
(* (On the server's own loop, a pool of none, runInLoop runs                *)
(* conneectDestroyed at once: that is TcpServer's DestroyConnection.)       *)
ServerDestructs ==
  /\ "serverDestructs" \in Uses
  /\ Running
  /\ server # "gone"
  /\ server' = "gone"
  /\ pending' = IF server = "holds"
                THEN Append(pending, Functor("conneectDestroyed")) ELSE pending
  /\ UNCHANGED <<state, channelVars, work, caller, alive, stopped, downs,
                 outVars, removals, envVars>>

PeerCloses ==
  /\ Running
  /\ peer = "open"
  /\ peer' = "closed"
  /\ UNCHANGED <<state, channelVars, pending, work, caller, alive, stopped,
                 downs, outVars, serverVars, sent, freed, late>>

Unreferenced ==
  /\ server # "holds"
  /\ removals = 0
  /\ work = <<>>
  /\ \A i \in DOMAIN pending : pending[i].kind \notin Owning
  /\ \A t \in Callers : caller[t] = "out"

(* The last shared_ptr goes: ~TcpConnection, with its assertion.            *)
Destruct ==
  /\ Running
  /\ alive
  /\ Unreferenced
  /\ alive' = FALSE
  /\ stopped' = IF state = "kDisconnected" THEN "no" ELSE "destructor_assertion"
  /\ UNCHANGED <<state, channelVars, pending, work, caller, downs, outVars,
                 serverVars, envVars>>

-----------------------------------------------------------------------------

RunFunctor ==
  \/ Established
  \/ Destroyed
  \/ UserFunctor
  \/ SendFunctorRuns
  \/ ShutdownFunctorRuns
  \/ RunsOnDead

WorkStep ==
  \/ HandleReadData
  \/ HandleError
  \/ HandlePeerClose
  \/ WriteSome
  \/ WriteNothing
  \/ UserReturn
  \/ CloseCallback
  \/ Remove

CallerStep(t) == QueueSend(t) \/ SetDisconnecting(t) \/ QueueShutdown(t)

Next ==
  \/ \E revents \in SUBSET (EpollBits \cup Unasked) : HandleEvent(revents)
  \/ WorkStep
  \/ \E m \in Msgs : UserSend(m)
  \/ UserShutdown
  \/ RunFunctor
  \/ \E t \in Callers : \/ \E m \in Msgs : CallSend(t, m)
                        \/ CallShutdown(t)
                        \/ CallerStep(t)
  \/ RemoveConnectionInLoop
  \/ ServerDestructs
  \/ PeerCloses
  \/ Destruct

SafeSpec == Init /\ [][Next]_vars

(* The loop's thread finishes what it has begun, and comes back to its      *)
(* functors and to a readable socket however many other events there are:   *)
(* doPendingFunctors follows every batch and epoll is level-triggered.  A   *)
(* closed socket stays readable, and behind the finite data that came       *)
(* before its end handleRead finds that end.  ~TcpConnection is part of     *)
(* whatever drops the last reference, so it is not passed over for ever.    *)
Spec ==
  /\ SafeSpec
  /\ WF_vars(WorkStep)
  /\ SF_vars(RunFunctor)
  /\ SF_vars(HandleEvent({"EPOLLIN"}))
  /\ SF_vars(HandlePeerClose)
  /\ WF_vars(\E t \in Callers : CallerStep(t))
  /\ WF_vars(RemoveConnectionInLoop)
  /\ SF_vars(Destruct)

-----------------------------------------------------------------------------
(* Properties.                                                              *)

Units == (Msgs \cup {Junk}) \X (1 .. Size)

(* Every variable has its type; a registered channel asks for something,    *)
(* and the server is told at most once to forget the connection.  Here and  *)
(* below "late" is the exception: the store of a shutdown() on another      *)
(* thread that comes after the connection has ended (TcpConnection.cpp:     *)
(* 57-58) makes it kDisconnecting again, and it may end a second time.      *)
TypeOK ==
  /\ state \in States
  /\ events \subseteq EpollBits
  /\ added \in BOOLEAN
  /\ added => ~IsNoneEvent(events)
  /\ outputBuffer \in Seq(Units)
  /\ \A i \in DOMAIN pending :
       pending[i].kind \in Owning \cup {"send", "shutdown"}
  /\ \A i \in DOMAIN work :
       work[i] \in {"close", "error", "read", "write", "user",
                    "closeCallback", "remove"}
  /\ caller \in [Callers -> {"out", "checked", "set"} \cup Msgs]
  /\ server \in {"holds", "erased", "gone"}
  /\ removals \in Nat /\ (removals <= 1 \/ late)
  /\ wire \in Seq(Units)

(* Nothing accepted is lost, doubled or overtaken: what was written and     *)
(* what is buffered are together the accepted units, in order, over every   *)
(* mix of direct, partial and refused writes (TcpConnection.cpp:98-120,     *)
(* 143-185).                                                                *)
StreamIntact == wire \o outputBuffer = accepted

(* Buffered output is going to be written: EPOLLOUT is registered, so that  *)
(* "the poller, finding room in the send buffer, tells the channel to run   *)
(* its write callback" (TcpConnection.cpp:171-172).  The masks of           *)
(* Channel.cpp:10-11 refute it: enableReading sets EPOLLPRI, which          *)
(* isWriting() takes for its own.  A destroyed server excepts a connection: *)
(* conneectDestroyed drops its channel, output or not.                      *)
OutputArmed ==
  alive /\ server # "gone" /\ ~late /\ outputBuffer # <<>>
        /\ state \in {"kConnected", "kDisconnecting"}
    => added /\ "EPOLLOUT" \in events

(* The write side is closed only behind the last buffered unit              *)
(* (TcpConnection.cpp:110-112, 186-190), unless the connection had ended    *)
(* when shutdownInLoop ran: it does not look at the state.                  *)
ShutdownAfterOutput ==
  writeShut => outputBuffer = <<>> \/ state = "kDisconnected" \/ late

(* The assertion of handleClose (TcpConnection.cpp:123): a hangup, an end   *)
(* of file and the server's destructor do not close a connection twice.     *)
CloseAsserts == stopped # "close_assertion"

(* When the assertion of ~TcpConnection fails, "make sure the connection is *)
(* disconnected" (TcpConnection.cpp:44).  It is never a connection that     *)
(* nobody has ended: both ends have been gone through, and what is left is  *)
(* a kDisconnecting that conneectDestroyed, which changes the state of a    *)
(* kConnected connection only (TcpConnection.cpp:74), did not touch.  It    *)
(* takes a server that is destroyed before the peer has closed, with a      *)
(* shutdown() before or after that, or a late store.                        *)
EndsDisconnected ==
  stopped = "destructor_assertion" =>
    state = "kDisconnecting" /\ (server = "gone" \/ late)

(* The user hears at most once that the connection ended, from handleClose  *)
(* or from conneectDestroyed (TcpConnection.cpp:74-78, 127).                *)
DownOnce == downs <= 1 \/ late

Queued(kind, queue) == Cardinality({i \in DOMAIN queue : queue[i].kind = kind})

(* conneectDestroyed has run: it was queued when the server let go of the   *)
(* connection, and is no longer pending.                                    *)
Ended ==
  IF server # "holds" /\ Queued("conneectDestroyed", pending) = 0 THEN 1 ELSE 0

Life == INSTANCE ConnectionLife WITH told <- downs, ended <- Ended

(* The connection lives the life that its server counts on: established     *)
(* once, destroyed once and never before it is established, and its user    *)
(* told of the end by its peer's close or by a conneectDestroyed that finds *)
(* it connected, never by both (TcpConnection.cpp:63-80, 121-129), up to a  *)
(* late store.                                                              *)
LivesOnce == Life!Init /\ [][late' \/ [Life!Next]_(Life!lifeVars)]_vars

(* The high-water callback is queued by exactly the steps that take the     *)
(* output from below the mark to the mark or beyond, whatever part of the   *)
(* data a direct write has taken (TcpConnection.cpp:153-179); a drain and   *)
(* a second crossing call it again.                                         *)
HighWaterCrossings ==
  [][ (Len(outputBuffer) < HighWaterMark /\ Len(outputBuffer') >= HighWaterMark)
      <=> Queued("highWaterMark", pending') > Queued("highWaterMark", pending)
    ]_vars

(* A connection whose peer closes is not leaked: the end of file is read,   *)
(* the server told and made to let go, conneectDestroyed run and the object *)
(* destroyed, whatever sends, shutdowns and callbacks are under way         *)
(* (TcpConnection.cpp:96-102, 121-129, TcpServer.cpp:86-99).  What may come *)
(* first is the end of the process.                                         *)
ClosedIsFreed == <>[](peer = "closed" => ~alive \/ stopped # "no")

(* "Otherwise send in the event loop" (TcpConnection.cpp:52): what a thread *)
(* passed to send is what is written.  A string that dies after send        *)
(* returned, and before the loop runs sendInLoop on its data(), refutes it. *)
SentAsPassed == \A i \in DOMAIN wire : wire[i][1] # Junk
=============================================================================
